---------------------------- MODULE Spec2Model ----------------------------
(***************************************************************************)
(* Model of the AI request orchestration layer of deskcurator.             *)
(*                                                                         *)
(* Part 1: RateLimiter (src/utils/rateLimiter.ts, token bucket).           *)
(*                                                                         *)
(* Number representation.  The code keeps `tokens` as a JavaScript number  *)
(* and refills it by timePassed * (requestsPerMinute / 60000).  The model  *)
(* keeps the balance exactly, as an integer count of 1/60000 of a token    *)
(* (Scale units per token), so that one millisecond of refill is exactly   *)
(* maxTokens units and one debit is exactly Scale units.  Floating-point   *)
(* rounding of the products is not modelled.                               *)
(*                                                                         *)
(* Time.  `now` is the value Date.now() returns; it only moves forward.    *)
(* The timer started by setTimeout is measured on the same clock and may   *)
(* fire late (the callback runs at any time at or after its deadline).     *)
(* JavaScript is single threaded: every action below is one synchronous    *)
(* run-to-completion segment of the code, and the only suspension point    *)
(* of acquire() is its `await` on the timer.                               *)
(*                                                                         *)
(* Part 2: retryWithBackoff (src/utils/retry.ts), the provider adapters    *)
(* (src/services/gemini.provider.ts, anthropic.provider.ts) and AIService  *)
(* (src/services/ai.service.ts).                                           *)
(*                                                                         *)
(* Objects.  A JavaScript object is a record of the properties that were   *)
(* assigned to it; reading a property that was never assigned yields       *)
(* Undefined (Get).  An error that was raised is kept together with the    *)
(* serial number of the invocation that raised it, which stands for the    *)
(* identity of the object.  Strings are sequences: a message is the        *)
(* sequence of its phrases, a text the sequence of its characters.         *)
(*                                                                         *)
(* Suspension points of a request: the await on acquire(), the provider    *)
(* call (and every chunk of a stream), and the backoff timer.  The         *)
(* continuations that follow a settled promise without a timer or I/O in   *)
(* between run in the same step.  The onChunk callbacks are the ones of    *)
(* AIService.ask, which do not throw.                                      *)
(***************************************************************************)
EXTENDS Integers, Naturals, Sequences, FiniteSets, TLC

\* ------------------------------------------------------------------ bounds
\* number of concurrent callers of acquire()
NumCallers == 2
\* acquire() calls allowed beyond the initial capacity of the bucket
ExtraCalls == 2
\* free clock advances (advances up to a pending timer deadline are not counted)
MaxTicks == 2
\* largest maxRetries a retry configuration is given
MaxRetries == 2
\* non-terminal chunks one streaming request may receive (over its attempts)
MaxChunks == 2
\* track() calls made on a tracker since its construction or last reset
MaxTracks == 3
\* phrases in the message of a failure of the backend
MaxPhrases == 2
\* messages of a request given to the adapter
MaxMessages == 2
\* signals delivered to the process
MaxSignals == 2
\* approval requests made of the messaging service
MaxApprovals == 2

\* ------------------------------------------------------- program constants
\* milliseconds per minute: refillRate = requestsPerMinute / 60000
Scale == 60000
\* Date.now() at construction (the tests' mocked start value)
T0 == 1000
\* largest delay setTimeout accepts (2^31 - 1 ms); anything larger, smaller
\* than 1 or NaN is replaced by 1 by the runtime
TIMEOUT_MAX == 2147483647
\* the default of RetryConfig.maxDelay (ms)
DefaultMaxDelay == 30000

Callers == 1..NumCallers
\* requestsPerMinute values a limiter is constructed with
RpmValues == {0, 1, 2}
\* requestsPerMinute of the sequential scenario of the test-suite
RpmSeq == 60
\* amounts by which the clock may advance in one step (ms)
TickSteps == {30000, 60000}
\* the clock advances of the sequential scenario (ms)
TickStepsSeq == {500, 30000, 60000}

VARIABLES
  maxTokens,   \* RateLimiter.maxTokens (requestsPerMinute)
  tokens,      \* RateLimiter.tokens, in 1/Scale of a token
  lastRefill,  \* RateLimiter.lastRefill
  now,         \* Date.now()
  pc,          \* per caller: "idle", "waiting" (suspended in await), "done"
  deadline,    \* per caller: clock value at which its timer is due
  debited,     \* per caller: debits made on behalf of its current call
  calls,       \* acquire() calls made so far
  returned,    \* acquire() calls that have returned so far
  ticks,       \* free clock advances made so far
  obs,         \* value getAvailableTokens() returned in the last step, else 0
  baseTokens,  \* balance right after the last debit (or construction)
  baseTime,    \* clock value at the last debit (or construction)
  last,        \* the operation that made the last step
  config,      \* the RetryConfig in force (AIService: maxRetries, retryDelay)
  provider,    \* AIService.provider: which adapter serves the requests
  tokenUsage,  \* AIService.tokenUsage
  req,         \* per caller: its request (retryWithBackoff / AIService call)
  svc,         \* the construction of the AIService: what `new AIService()` did
  resetDate,   \* time value of the Date object AIService.tokenUsage.lastReset
  tracker,     \* the TokenUsageTracker: its maps usage and requestCount
  tracked,     \* how often each track(p, u) was called since the last reset
  snap,        \* the object the last getUsage() / getTokenUsage() returned
  asked,       \* per caller: its last ask() call and what it sent
  applied,     \* the last call of a function of the adapter: input, output
  app,         \* the process of main(): its position, the messaging
               \* service, the signal handlers, and what happened so far
  hist,        \* what the calls of acquire() did so far: how many were
               \* suspended at once, whether the timers were punctual
  gem,         \* the call of the Gemini adapter: its position, what was
               \* thrown inside it and what it threw
  desk,        \* the DiscordService called directly: isReady,
               \* pendingApprovals, the approval requests and their promises
  research     \* the researchProduct() call of the ContentResearcher: its
               \* position, what it logged and how it ended

vars == <<maxTokens, tokens, lastRefill, now, pc, deadline, debited, calls,
          returned, ticks, obs, baseTokens, baseTime, last,
          config, provider, tokenUsage, req, svc, resetDate,
          tracker, tracked, snap, asked, applied, app, hist, gem, desk,
          research>>

\* the state of the rate limiter a step of a request does not touch
limiterVars == <<maxTokens, tokens, lastRefill, pc, deadline, debited, calls,
                 returned, ticks, baseTokens, baseTime>>

\* the state of the service and of its requests
serviceVars == <<config, provider, tokenUsage, req>>

\* the state of the application around the requests of the service
appVars ==
  <<svc, resetDate, tracker, tracked, snap, asked, applied, app, hist,
    gem, desk, research>>

\* what a step of the application outside the limiter leaves alone
deskVars == <<hist, gem, desk, research>>

\* the callers of ask(), the calls of the adapter's functions, and main()
restVars == <<asked, applied, app>>

\* the TokenUsageTracker and the snapshots taken of the ledgers
ledgerVars == <<tracker, tracked, snap>>

Min(a, b) == IF a <= b THEN a ELSE b

\* faulty variant of Floor: Math.round in place of Math.floor
FloorRound(t) == (t + Scale \div 2) \div Scale

\* Math.floor of a balance given in 1/Scale of a token
Floor(t) == t \div Scale

\* refillRate, in 1/Scale of a token per millisecond
refillRate == maxTokens

\* faulty variant of Refilled: refill() without the Math.min cap
RefilledNoCap == tokens + (now - lastRefill) * maxTokens

\* the balance refill() leaves: min(maxTokens, tokens + timePassed * refillRate)
Refilled == Min(maxTokens * Scale, tokens + (now - lastRefill) * refillRate)

\* (1 - tokens) / refillRate: a whole number of ms (the timer truncates the
\* delay it is given), or Infinity when refillRate is 0
timeToWait(t) ==
  IF refillRate = 0
    THEN [finite |-> FALSE, ms |-> 0]
    ELSE [finite |-> TRUE, ms |-> (Scale - t) \div refillRate]

\* the delay the timer of setTimeout(resolve, d) really runs with
setTimeoutDelay(d) ==
  IF d.finite /\ d.ms >= 1 /\ d.ms <= TIMEOUT_MAX THEN d.ms ELSE 1

\* ------------------------------------------------- objects of the service
\* the value of an absent argument or of a property that was never assigned
Undefined == "undefined"

\* the property read o.f
Get(o, f) == IF f \in DOMAIN o THEN o[f] ELSE Undefined

\* the truthiness of what a retryability predicate returns
Truthy(v) == v \notin {Undefined, "false"}

\* message.includes(phrase)
Includes(message, phrase) == \E i \in DOMAIN message : message[i] = phrase

\* new AIServiceError(message, type, provider, statusCode, retryAfter,
\* originalError): the constructor stores its arguments under these names
AIServiceError(message, type, prov, statusCode, retryAfter, originalError) ==
  [class |-> "AIServiceError", name |-> "AIServiceError",
   message |-> message, type |-> type, provider |-> prov,
   statusCode |-> statusCode, retryAfter |-> retryAfter,
   originalError |-> originalError]

\* an error that is not an AIServiceError
PlainError == [class |-> "Error", name |-> "TypeError", message |-> <<"boom">>]

\* the object o with its property retryable set to flag
WithRetryable(o, flag) ==
  [f \in DOMAIN o \cup {"retryable"} |->
     IF f = "retryable" THEN flag ELSE o[f]]

\* what the Gemini SDK may throw: message phrases, code, statusCode
RawErrors ==
  {[message |-> <<"quota">>, code |-> Undefined, statusCode |-> "429"],
   [message |-> <<"API key">>, code |-> Undefined, statusCode |-> "400"],
   [message |-> <<"blocked">>, code |-> Undefined, statusCode |-> Undefined],
   [message |-> <<"connect">>, code |-> "ECONNREFUSED",
    statusCode |-> Undefined],
   [message |-> <<>>, code |-> Undefined, statusCode |-> "500"]}

\* GeminiProvider.handleError(error)
handleError(error) ==
  LET message == IF error.message = <<>>
                   THEN <<"Unknown error occurred">> ELSE error.message
  IN  IF Includes(message, "quota") \/ Includes(message, "rate limit")
        THEN AIServiceError(<<"Rate limit exceeded">>, "RATE_LIMIT_EXCEEDED",
                            "429", "true", Undefined, Undefined)
      ELSE IF Includes(message, "API key")
              \/ Includes(message, "authentication")
        THEN AIServiceError(<<"Invalid API key">>, "INVALID_API_KEY",
                            "401", "false", Undefined, Undefined)
      ELSE IF Includes(message, "safety") \/ Includes(message, "blocked")
        THEN AIServiceError(<<"Content blocked by safety filters">>,
                            "CONTENT_FILTERED", "400", "false",
                            Undefined, Undefined)
      ELSE IF error.code \in {"ECONNREFUSED", "ETIMEDOUT"}
        THEN AIServiceError(<<"Network error - unable to reach Gemini API">>,
                            "NETWORK_ERROR", Undefined, "true",
                            Undefined, Undefined)
      ELSE AIServiceError(message, "UNKNOWN_ERROR", error.statusCode, "false",
                          Undefined, Undefined)

\* the error both operations of AnthropicProvider throw
NotImplemented ==
  AIServiceError(<<"Anthropic provider not yet implemented">>,
                 "NOT_IMPLEMENTED", "501", "false", Undefined, Undefined)

\* the errors of a simulated adapter: AIErrorType kinds, each object carrying
\* the retryable mark its kind prescribes, and an error of another class
SimulatedErrors ==
  {WithRetryable(AIServiceError(<<"slow down">>, "rate_limit", "simulated",
                                "429", Undefined, Undefined), "true"),
   WithRetryable(AIServiceError(<<"bad key">>, "authentication", "simulated",
                                "401", Undefined, Undefined), "false"),
   PlainError}

\* the adapters AIService.createProvider builds, and a simulated one
Providers == {"gemini", "anthropic", "simulated"}

\* the errors a call of the adapter p may fail with
ProviderErrors(p) ==
  IF p = "gemini" THEN {handleError(raw) : raw \in RawErrors}
  ELSE IF p = "anthropic" THEN {NotImplemented}
  ELSE SimulatedErrors

\* the errors the operation given to retryWithBackoff may fail with
FnErrors ==
  {PlainError,
   handleError([message |-> <<"quota">>, code |-> Undefined,
                statusCode |-> "429"]),
   WithRetryable(NotImplemented, "true"),
   WithRetryable(NotImplemented, "false")}

\* error kinds the adapters use for transient failures
TransientTypes ==
  {"RATE_LIMIT_EXCEEDED", "NETWORK_ERROR", "rate_limit", "network_error"}

\* no error (the initial value of lastError)
NoError == [error |-> [class |-> "none"], by |-> 0]

\* the error object e raised by invocation number n of the operation
Raised(e, n) == [error |-> e, by |-> n]

\* absent usage
NoUsage ==
  [present |-> FALSE, promptTokens |-> 0, completionTokens |-> 0,
   totalTokens |-> 0]

\* response.usageMetadata values: absent, complete, and one with a count
\* missing
UsageMetadata ==
  {[present |-> FALSE, promptTokenCount |-> 0, candidatesTokenCount |-> 0,
    totalTokenCount |-> 0],
   [present |-> TRUE, promptTokenCount |-> 1, candidatesTokenCount |-> 2,
    totalTokenCount |-> 3]}

\* the usage the Gemini adapter builds from response.usageMetadata
usageOf(md) ==
  IF md.present
    THEN [present |-> TRUE, promptTokens |-> md.promptTokenCount,
          completionTokens |-> md.candidatesTokenCount,
          totalTokens |-> md.totalTokenCount]
    ELSE NoUsage

\* texts a response or a chunk may carry
Fragments == {<<"a">>, <<"b", "c">>}

\* no value returned yet
NoResult == [returned |-> FALSE, content |-> <<>>, usage |-> NoUsage]

\* a request that has not been made
IdleRequest ==
  [op |-> "none", state |-> "Idle", attempt |-> 0, invocations |-> 0,
   delays |-> <<>>, wake |-> 0, lastError |-> NoError, thrown |-> NoError,
   raised |-> NoError,
   result |-> NoResult, chunks |-> <<>>, attemptStart |-> 0,
   fullResponse |-> <<>>, recorded |-> 0]

\* the retry configurations: maxDelay and shouldRetry are optional
RetryConfigs(delays, maxDelays, predicates) ==
  [maxRetries : 0..MaxRetries, baseDelay : delays, maxDelay : maxDelays,
   shouldRetry : predicates]

\* the configurations of AIService: {maxRetries, baseDelay: retryDelay}
ServiceConfigs ==
  RetryConfigs({1000}, {[given |-> FALSE, ms |-> 0]},
               {[given |-> FALSE, accepts |-> {}]})

\* the configurations retryWithBackoff is called with: maxDelay absent or
\* given, the predicate absent or any function of the error
AnyConfigs ==
  RetryConfigs({1000, 20000},
               {[given |-> FALSE, ms |-> 0], [given |-> TRUE, ms |-> 1500]},
               {[given |-> FALSE, accepts |-> {}]}
                 \cup {[given |-> TRUE, accepts |-> a] :
                         a \in SUBSET FnErrors})

\* the ledger of a new AIService
ZeroUsage ==
  [promptTokens |-> 0, completionTokens |-> 0, totalTokens |-> 0,
   requestCount |-> 0]

\* no error was thrown
NotThrown == [class |-> "none"]

\* new Error(message)
Error(message) == [class |-> "Error", name |-> "Error", message |-> message]

\* before `new AIService()` runs: no adapter and no limiter exist
NotConstructed ==
  [phase |-> "none", providerName |-> Undefined, adapters |-> <<>>,
   limiters |-> 0, thrown |-> NotThrown]

\* after the constructor has returned: the adapter made for providerName
\* and one RateLimiter
Constructed(providerName) ==
  [phase |-> "constructed", providerName |-> providerName,
   adapters |-> <<providerName>>, limiters |-> 1, thrown |-> NotThrown]

\* after the constructor has thrown error, having made the given adapters
\* and limiters
ConstructionFailed(providerName, adapters, limiters, error) ==
  [phase |-> "failed", providerName |-> providerName, adapters |-> adapters,
   limiters |-> limiters, thrown |-> error]

\* ------------------------------------------------------ TokenUsageTracker
\* Object.values(AIProvider), in the order of the enum
AIProvider == <<"gemini", "anthropic">>

\* the accumulator a provider starts with
ZeroTokenUsage ==
  [promptTokens |-> 0, completionTokens |-> 0, totalTokens |-> 0,
   estimatedCost |-> 0]

\* the TokenUsage values given to track(); the optional estimatedCost is
\* <<>> when absent and <<cost>> when given
TokenUsages ==
  {[promptTokens |-> 10, completionTokens |-> 5, totalTokens |-> 15,
    estimatedCost |-> <<>>],
   [promptTokens |-> 1, completionTokens |-> 2, totalTokens |-> 3,
    estimatedCost |-> <<4>>]}

\* the calls track(provider, usage) that are made
TrackCalls == {<<AIProvider[i], u>> : i \in DOMAIN AIProvider, u \in TokenUsages}

\* the map `usage` after the forEach of the constructor and of reset() ran
\* over the given providers, starting from the empty map
Initialized(providers) ==
  [p \in {providers[i] : i \in DOMAIN providers} |-> ZeroTokenUsage]

\* the tracker right after `new TokenUsageTracker()` or reset() at time t
NewTracker(t) ==
  [usage |-> Initialized(AIProvider),
   requestCount |-> [p \in DOMAIN Initialized(AIProvider) |-> 0],
   startTime |-> t]

\* no snapshot was taken
NoSnapshot ==
  [of |-> "none", key |-> "none", value |-> ZeroTokenUsage,
   date |-> [shared |-> FALSE, time |-> 0]]

\* an object without properties ({...undefined}, or an absent options argument)
EmptyObject == [k \in {} |-> 0]

\* an optional string argument that was not given (undefined)
NoText == [given |-> FALSE, text |-> <<>>]

\* the string text given as an argument
Text(text) == [given |-> TRUE, text |-> text]

\* ask() was not called
NotAsked ==
  [called |-> FALSE, prompt |-> <<>>, systemPrompt |-> NoText,
   options |-> EmptyObject, requests |-> <<>>, returned |-> NoText]

\* no function of the adapter was called
NoCall == [fn |-> "none", input |-> <<>>, output |-> <<>>]

\* main() has not been called: the messaging service is constructed and
\* not ready, no handler of a signal is installed, nothing has happened
NotStarted ==
  [pc |-> "init", client |-> "new", isReady |-> FALSE, handlers |-> {},
   running |-> <<>>, trace |-> <<>>, exit |-> "none"]

\* no acquire() call was made: no caller was suspended, no timer was late,
\* no call was made while another was suspended
NoWaits == [peak |-> 0, punctual |-> TRUE, serial |-> TRUE]

\* the approval requests, by their ids (randomUUID: no two are alike)
Approvals == 1..MaxApprovals

\* an approval request before requestApproval() is called with it: no
\* promise, no message posted, no timer and no collector
NoApproval ==
  [pc |-> "none", promise |-> "none", value |-> [kind |-> "none"],
   posted |-> FALSE, timeout |-> FALSE, collector |-> FALSE,
   msgCollector |-> FALSE, collected |-> 0, action |-> "none",
   feedback |-> 0]

\* new DiscordService(): not ready, no pending approval, nothing called
NewDiscordService ==
  [isReady |-> FALSE, fired |-> FALSE, pendingApprovals |-> {},
   requests |-> [r \in Approvals |-> NoApproval], messages |-> 0,
   done |-> [fn |-> "none"]]

\* no call of the adapter was made
NoAdapterCall ==
  [op |-> "none", pc |-> "idle", chunks |-> 0,
   cause |-> [error |-> NotThrown, by |-> "none"],
   escaped |-> [error |-> NotThrown, by |-> "none"]]

\* researchProduct() was not called
NotResearching ==
  [pc |-> "idle", step |-> 0, id |-> 0, logged |-> {},
   result |-> [kind |-> "none"]]

\* the parts of the application outside the service, before they are used
AppInit ==
  /\ resetDate = T0
  /\ tracker = NewTracker(T0)
  /\ tracked = [call \in TrackCalls |-> 0]
  /\ snap = NoSnapshot
  /\ asked = [c \in Callers |-> NotAsked]
  /\ applied = NoCall
  /\ app = NotStarted
  /\ hist = NoWaits
  /\ gem = NoAdapterCall
  /\ desk = NewDiscordService
  /\ research = NotResearching

\* the service as constructed with one of the given adapters and
\* configurations, and no request made
InitService(providers, configs) ==
  /\ provider \in providers
  /\ config \in configs
  /\ tokenUsage = ZeroUsage
  /\ req = [c \in Callers |-> IdleRequest]
  /\ svc = Constructed(provider)
  /\ AppInit

\* the configuration of the limiter-only scenarios (no request is made)
LimiterOnly ==
  InitService({"gemini"},
              {[maxRetries |-> 0, baseDelay |-> 1000,
                maxDelay |-> [given |-> FALSE, ms |-> 0],
                shouldRetry |-> [given |-> FALSE, accepts |-> {}]]})

\* faulty variant of InitWith: a constructor that leaves the bucket empty
InitWithEmpty(rpms) ==
  /\ maxTokens \in rpms
  /\ tokens = 0
  /\ lastRefill = T0
  /\ now = T0
  /\ pc = [c \in Callers |-> "idle"]
  /\ deadline = [c \in Callers |-> 0]
  /\ debited = [c \in Callers |-> 0]
  /\ calls = 0
  /\ returned = 0
  /\ ticks = 0
  /\ obs = 0
  /\ baseTokens = 0
  /\ baseTime = T0
  /\ last = "init"

\* ------------------------------------------------------------------- Init
InitWith(rpms) ==
  /\ maxTokens \in rpms
  /\ tokens = maxTokens * Scale
  /\ lastRefill = T0
  /\ now = T0
  /\ pc = [c \in Callers |-> "idle"]
  /\ deadline = [c \in Callers |-> 0]
  /\ debited = [c \in Callers |-> 0]
  /\ calls = 0
  /\ returned = 0
  /\ ticks = 0
  /\ obs = 0
  /\ baseTokens = maxTokens * Scale
  /\ baseTime = T0
  /\ last = "init"

Init == InitWith(RpmValues) /\ LimiterOnly

\* a limiter of one request per minute, and the service beside it
InitRpm1 == InitWith({1}) /\ LimiterOnly

\* ---------------------------------------------------------------- actions
\* faulty variant of Acquire: `tokens > 1` in place of `tokens >= 1`
AcquireStrict(c) ==
  /\ pc[c] \in {"idle", "done"}
  /\ calls < maxTokens + ExtraCalls
  /\ calls' = calls + 1
  /\ lastRefill' = now
  /\ IF Refilled > Scale
       THEN /\ tokens' = Refilled - Scale
            /\ pc' = [pc EXCEPT ![c] = "done"]
            /\ debited' = [debited EXCEPT ![c] = 1]
            /\ returned' = returned + 1
            /\ baseTokens' = tokens'
            /\ baseTime' = now
            /\ UNCHANGED deadline
       ELSE /\ tokens' = Refilled
            /\ pc' = [pc EXCEPT ![c] = "waiting"]
            /\ debited' = [debited EXCEPT ![c] = 0]
            /\ deadline' = [deadline EXCEPT
                             ![c] = now + setTimeoutDelay(timeToWait(Refilled))]
            /\ UNCHANGED <<returned, baseTokens, baseTime>>
  /\ last' = "acquire"
  /\ obs' = 0
  /\ UNCHANGED <<maxTokens, now, ticks>>

\* faulty variant of Acquire: a first-come-first-served limiter, where a call
\* queues behind the callers that are already waiting
AcquireFifo(c) ==
  /\ pc[c] \in {"idle", "done"}
  /\ calls < maxTokens + ExtraCalls
  /\ calls' = calls + 1
  /\ lastRefill' = now
  /\ IF Refilled >= Scale /\ \A w \in Callers : pc[w] # "waiting"
       THEN /\ tokens' = Refilled - Scale
            /\ pc' = [pc EXCEPT ![c] = "done"]
            /\ debited' = [debited EXCEPT ![c] = 1]
            /\ returned' = returned + 1
            /\ baseTokens' = tokens'
            /\ baseTime' = now
            /\ UNCHANGED deadline
       ELSE /\ tokens' = Refilled
            /\ pc' = [pc EXCEPT ![c] = "waiting"]
            /\ debited' = [debited EXCEPT ![c] = 0]
            /\ deadline' = [deadline EXCEPT
                             ![c] = now + setTimeoutDelay(timeToWait(Refilled))]
            /\ UNCHANGED <<returned, baseTokens, baseTime>>
  /\ last' = "acquire"
  /\ obs' = 0
  /\ UNCHANGED <<maxTokens, now, ticks>>

\* acquire(), from the call to its return or to its await
Acquire(c) ==
  /\ pc[c] \in {"idle", "done"}
  /\ calls < maxTokens + ExtraCalls
  /\ calls' = calls + 1
  /\ lastRefill' = now
  /\ IF Refilled >= Scale
       THEN /\ tokens' = Refilled - Scale
            /\ pc' = [pc EXCEPT ![c] = "done"]
            /\ debited' = [debited EXCEPT ![c] = 1]
            /\ returned' = returned + 1
            /\ baseTokens' = tokens'
            /\ baseTime' = now
            /\ UNCHANGED deadline
       ELSE /\ tokens' = Refilled
            /\ pc' = [pc EXCEPT ![c] = "waiting"]
            /\ debited' = [debited EXCEPT ![c] = 0]
            /\ deadline' = [deadline EXCEPT
                             ![c] = now + setTimeoutDelay(timeToWait(Refilled))]
            /\ UNCHANGED <<returned, baseTokens, baseTime>>
  /\ last' = "acquire"
  /\ obs' = 0
  /\ UNCHANGED <<maxTokens, now, ticks>>

\* faulty variant of AcquireResume: the waiting path returns without its debit
AcquireResumeNoDebit(c) ==
  /\ pc[c] = "waiting"
  /\ now >= deadline[c]
  /\ tokens' = Refilled
  /\ lastRefill' = now
  /\ pc' = [pc EXCEPT ![c] = "done"]
  /\ returned' = returned + 1
  /\ last' = "resume"
  /\ obs' = 0
  /\ UNCHANGED <<maxTokens, now, deadline, debited, calls, ticks, baseTokens,
                 baseTime>>

\* faulty variant of AcquireResume: the timer callback never resolves the
\* awaited promise
AcquireResumeLost(c) ==
  /\ pc[c] = "waiting"
  /\ now >= deadline[c]
  /\ pc' = [pc EXCEPT ![c] = "hung"]
  /\ last' = "resume"
  /\ obs' = 0
  /\ UNCHANGED <<maxTokens, tokens, lastRefill, now, deadline, debited, calls,
                 returned, ticks, baseTokens, baseTime>>

\* acquire(), from the timer callback to its return
AcquireResume(c) ==
  /\ pc[c] = "waiting"
  /\ now >= deadline[c]
  /\ tokens' = Refilled - Scale
  /\ lastRefill' = now
  /\ pc' = [pc EXCEPT ![c] = "done"]
  /\ debited' = [debited EXCEPT ![c] = @ + 1]
  /\ returned' = returned + 1
  /\ baseTokens' = tokens'
  /\ baseTime' = now
  /\ last' = "resume"
  /\ obs' = 0
  /\ UNCHANGED <<maxTokens, now, deadline, calls, ticks>>

\* faulty variant of GetAvailableTokens: it takes a token when one is there
GetAvailableTokensConsuming ==
  /\ tokens' = IF Refilled >= Scale THEN Refilled - Scale ELSE Refilled
  /\ lastRefill' = now
  /\ obs' = Floor(Refilled)
  /\ last' = "get"
  /\ UNCHANGED <<maxTokens, now, pc, deadline, debited, calls, returned,
                 ticks, baseTokens, baseTime>>

\* getAvailableTokens()
GetAvailableTokens ==
  /\ tokens' = Refilled
  /\ lastRefill' = now
  /\ obs' = Floor(tokens')
  /\ last' = "get"
  /\ UNCHANGED <<maxTokens, now, pc, deadline, debited, calls, returned,
                 ticks, baseTokens, baseTime>>

\* the clock advances by d ms
Tick(d) ==
  /\ ticks < MaxTicks
  /\ ticks' = ticks + 1
  /\ now' = now + d
  /\ last' = "tick"
  /\ obs' = 0
  /\ UNCHANGED <<maxTokens, tokens, lastRefill, pc, deadline, debited, calls,
                 returned, baseTokens, baseTime>>

\* the clock reaches the deadline of a pending timer
TimerDue(c) ==
  /\ pc[c] = "waiting"
  /\ deadline[c] > now
  /\ now' = deadline[c]
  /\ last' = "tick"
  /\ obs' = 0
  /\ UNCHANGED <<maxTokens, tokens, lastRefill, pc, deadline, debited, calls,
                 returned, ticks, baseTokens, baseTime>>

NextFor(cs, steps) ==
  \/ \E c \in cs : Acquire(c) /\ UNCHANGED <<serviceVars, appVars>>
  \/ \E c \in cs : AcquireResume(c) /\ UNCHANGED <<serviceVars, appVars>>
  \/ GetAvailableTokens /\ UNCHANGED <<serviceVars, appVars>>
  \/ \E d \in steps : Tick(d) /\ UNCHANGED <<serviceVars, appVars>>
  \/ \E c \in cs : TimerDue(c) /\ UNCHANGED <<serviceVars, appVars>>

Next == NextFor(Callers, TickSteps)

Spec == Init /\ [][Next]_vars

\* one caller issuing its calls in sequence on a RateLimiter(60)
InitSeq == InitWith({RpmSeq}) /\ LimiterOnly
NextSeq == NextFor({1}, TickStepsSeq)
SeqSpec == InitSeq /\ [][NextSeq]_vars

\* the event loop runs every callback whose timer is due, and time passes
LiveSpec ==
  /\ Init /\ [][Next]_vars
  /\ \A c \in Callers :
       /\ WF_vars(TimerDue(c) /\ UNCHANGED <<serviceVars, appVars>>)
       /\ WF_vars(AcquireResume(c) /\ UNCHANGED <<serviceVars, appVars>>)

TypeOK ==
  /\ maxTokens \in Nat
  /\ tokens \in Int
  /\ lastRefill \in Nat /\ now \in Nat /\ lastRefill <= now
  /\ pc \in [Callers -> {"idle", "waiting", "done"}]
  /\ deadline \in [Callers -> Nat]
  /\ debited \in [Callers -> Nat]
  /\ calls \in Nat /\ returned \in Nat /\ ticks \in Nat
  /\ obs \in Int
  /\ last \in {"init", "acquire", "resume", "get", "tick", "call", "invoke",
               "return", "throw", "chunk", "new",
               "track", "reset", "snapshot", "mutate",
               "apply", "main", "adapter", "desk",
               "researcher"}
  /\ provider \in Providers \cup {Undefined}
  /\ tokenUsage.requestCount \in Nat
  /\ \A c \in Callers :
       /\ req[c].state \in {"Idle", "RateLimited", "InFlight", "Retrying",
                            "Succeeded", "Failed"}
       /\ req[c].op \in {"none", "retry", "complete", "stream"}
       /\ req[c].attempt \in 0..config.maxRetries

\* ------------------------------------------------------ retryWithBackoff
\* maxDelay after the defaults of the configuration are applied
maxDelay == IF config.maxDelay.given THEN config.maxDelay.ms ELSE DefaultMaxDelay

\* faulty variant of defaultShouldRetry: every AIServiceError is retried
defaultShouldRetryAll(error) ==
  IF error.class = "AIServiceError" THEN "true" ELSE "false"

\* the default of RetryConfig.shouldRetry
defaultShouldRetry(error) ==
  IF error.class = "AIServiceError" THEN Get(error, "retryable") ELSE "false"

\* shouldRetry(error) after the defaults of the configuration are applied
shouldRetry(error) ==
  IF config.shouldRetry.given
    THEN error \in config.shouldRetry.accepts
    ELSE Truthy(defaultShouldRetry(error))

\* faulty variant of delay: the backoff is not capped at maxDelay
delayNoCap(attempt) == config.baseDelay * 2^attempt

\* Math.min(baseDelay * Math.pow(2, attempt), maxDelay)
delay(attempt) == Min(config.baseDelay * 2^attempt, maxDelay)

\* fn() is invoked for the request r
Invoke(r) ==
  [r EXCEPT !.state = "InFlight", !.invocations = @ + 1,
            !.attemptStart = Len(r.chunks)]

\* the loop test `attempt <= maxRetries` and what follows it: the next
\* invocation, or `throw lastError` after the loop
LoopTest(r) ==
  IF r.attempt <= config.maxRetries
    THEN Invoke(r)
    ELSE [r EXCEPT !.state = "Failed", !.thrown = r.lastError]

\* the request r after the timer of a backoff of d ms is started
Backoff(r, d) ==
  [r EXCEPT !.delays = Append(@, d),
            !.wake = now + setTimeoutDelay([finite |-> TRUE, ms |-> d]),
            !.state = "Retrying"]

\* faulty variant of Caught: a retry that is not counted as an attempt
CaughtUncounted(r, error) ==
  IF r.attempt = config.maxRetries \/ ~shouldRetry(error.error)
    THEN [r EXCEPT !.lastError = error, !.thrown = error, !.state = "Failed"]
    ELSE [Backoff(r, delay(r.attempt)) EXCEPT !.lastError = error,
                                              !.attempt = @ - 1]

\* faulty variant of Caught: the predicate is not consulted
CaughtIgnoringPredicate(r, error) ==
  IF r.attempt = config.maxRetries
    THEN [r EXCEPT !.lastError = error, !.thrown = error, !.state = "Failed"]
    ELSE [Backoff(r, delay(r.attempt)) EXCEPT !.lastError = error]

\* faulty variant of Caught: the error is wrapped in a new one when rethrown
CaughtWrapped(r, error) ==
  IF r.attempt = config.maxRetries \/ ~shouldRetry(error.error)
    THEN [r EXCEPT !.lastError = error,
                   !.thrown = Raised([class |-> "Error", name |-> "Error",
                                      message |-> <<"retries exhausted">>,
                                      cause |-> error.error], 0),
                   !.state = "Failed"]
    ELSE [Backoff(r, delay(r.attempt)) EXCEPT !.lastError = error]

\* the catch block, for the error object that the invocation in flight
\* raised: rethrow it, or start the backoff timer
Caught(r, error) ==
  IF r.attempt = config.maxRetries \/ ~shouldRetry(error.error)
    THEN [r EXCEPT !.lastError = error, !.thrown = error, !.state = "Failed"]
    ELSE [Backoff(r, delay(r.attempt)) EXCEPT !.lastError = error]

\* the request r when its invocation in flight raises the error object e
Throws(r, e) ==
  LET error == Raised(e, r.invocations)
  IN  [Caught(r, error) EXCEPT !.raised = error]

\* retryWithBackoff(fn, config) is called: the first invocation of fn
RetryWithBackoff(c) ==
  /\ req[c].state = "Idle"
  /\ req' = [req EXCEPT ![c] = LoopTest([IdleRequest EXCEPT !.op = "retry"])]
  /\ last' = "call"
  /\ obs' = 0
  /\ UNCHANGED <<limiterVars, now, config, provider, tokenUsage>>

\* the promise of fn() is fulfilled with v: retryWithBackoff returns v
FnReturns(c, v) ==
  /\ req[c].state = "InFlight" /\ req[c].op = "retry"
  /\ req' = [req EXCEPT ![c].state = "Succeeded",
                        ![c].result = [returned |-> TRUE, content |-> v,
                                       usage |-> NoUsage]]
  /\ last' = "return"
  /\ obs' = 0
  /\ UNCHANGED <<limiterVars, now, config, provider, tokenUsage>>

\* the promise of fn() is rejected with e
FnThrows(c, e) ==
  /\ req[c].state = "InFlight" /\ req[c].op = "retry"
  /\ req' = [req EXCEPT ![c] = Throws(req[c], e)]
  /\ last' = "throw"
  /\ obs' = 0
  /\ UNCHANGED <<limiterVars, now, config, provider, tokenUsage>>

\* the clock reaches the deadline of a pending backoff timer
BackoffDue(c) ==
  /\ req[c].state = "Retrying"
  /\ req[c].wake > now
  /\ now' = req[c].wake
  /\ last' = "tick"
  /\ obs' = 0
  /\ UNCHANGED <<limiterVars, serviceVars>>

\* faulty variant of BackoffElapsed: a retry attempt debits the limiter anew
BackoffElapsedDebits(c) ==
  /\ req[c].state = "Retrying"
  /\ now >= req[c].wake
  /\ req' = [req EXCEPT ![c] = LoopTest([req[c] EXCEPT !.attempt = @ + 1])]
  /\ tokens' = tokens - Scale
  /\ debited' = [debited EXCEPT ![c] = @ + 1]
  /\ last' = "invoke"
  /\ obs' = 0
  /\ UNCHANGED <<maxTokens, lastRefill, pc, deadline, calls, returned, ticks,
                 baseTokens, baseTime, now, config, provider, tokenUsage>>

\* the backoff timer fires: attempt++, the loop test, the next invocation
BackoffElapsed(c) ==
  /\ req[c].state = "Retrying"
  /\ now >= req[c].wake
  /\ req' = [req EXCEPT ![c] = LoopTest([req[c] EXCEPT !.attempt = @ + 1])]
  /\ last' = "invoke"
  /\ obs' = 0
  /\ UNCHANGED <<limiterVars, now, config, provider, tokenUsage>>

RetryNext ==
  \/ RetryWithBackoff(1) /\ UNCHANGED appVars
  \/ \E v \in Fragments : FnReturns(1, v) /\ UNCHANGED appVars
  \/ \E e \in FnErrors : FnThrows(1, e) /\ UNCHANGED appVars
  \/ BackoffDue(1) /\ UNCHANGED appVars
  \/ BackoffElapsed(1) /\ UNCHANGED appVars

\* one call of retryWithBackoff, for every configuration and every operation
RetryInit == InitWith({1}) /\ InitService({"gemini"}, AnyConfigs)
RetrySpec == RetryInit /\ [][RetryNext]_vars

\* every invocation of the operation settles, and timers fire
RetryLiveSpec ==
  /\ RetryInit /\ [][RetryNext]_vars
  /\ WF_vars(/\ \/ \E v \in Fragments : FnReturns(1, v)
                \/ \E e \in FnErrors : FnThrows(1, e)
             /\ UNCHANGED appVars)
  /\ WF_vars(BackoffDue(1) /\ UNCHANGED appVars)
  /\ WF_vars(BackoffElapsed(1) /\ UNCHANGED appVars)

\* -------------------------------------------------------------- AIService
\* AIService.updateTokenUsage(usage)
updateTokenUsage(usage) ==
  IF usage.present
    THEN [promptTokens |-> tokenUsage.promptTokens + usage.promptTokens,
          completionTokens |->
            tokenUsage.completionTokens + usage.completionTokens,
          totalTokens |-> tokenUsage.totalTokens + usage.totalTokens,
          requestCount |-> tokenUsage.requestCount + 1]
    ELSE [tokenUsage EXCEPT !.requestCount = @ + 1]

\* the chunk {content, isComplete, usage}
Chunk(content, isComplete, usage) ==
  [content |-> content, isComplete |-> isComplete, usage |-> usage]

\* faulty variant of RecordsUsage: usage is recorded at every chunk
RecordsUsageAlways(chunk) == TRUE

\* whether the callback streamComplete() hands to the adapter records the
\* usage of the chunk
RecordsUsage(chunk) == chunk.isComplete /\ chunk.usage.present

\* fullResponse after the callback of ask() has seen the chunk
Assembled(fullResponse, chunk) ==
  IF ~chunk.isComplete THEN fullResponse \o chunk.content ELSE fullResponse

\* the request of a call of op that is waiting for the rate limiter
NewRequest(op) == [IdleRequest EXCEPT !.op = op, !.state = "RateLimited"]

\* AIService.complete(request) is called: rateLimiter.acquire() is called
Complete(c) ==
  /\ req[c].state \in {"Idle", "Succeeded", "Failed"}
  /\ Acquire(c)
  /\ req' = [req EXCEPT ![c] = NewRequest("complete")]
  /\ UNCHANGED <<config, provider, tokenUsage>>

\* AIService.ask(prompt, systemPrompt, {stream: true}) is called: it calls
\* streamComplete(), which calls rateLimiter.acquire()
AskStream(c) ==
  /\ req[c].state \in {"Idle", "Succeeded", "Failed"}
  /\ Acquire(c)
  /\ req' = [req EXCEPT ![c] = NewRequest("stream")]
  /\ UNCHANGED <<config, provider, tokenUsage>>

\* faulty variant of Admitted: the adapter is invoked without waiting for
\* acquire()
AdmittedEarly(c) ==
  /\ req[c].state = "RateLimited"
  /\ req' = [req EXCEPT ![c] = LoopTest(req[c])]
  /\ last' = "invoke"
  /\ obs' = 0
  /\ UNCHANGED <<limiterVars, now, config, provider, tokenUsage>>

\* the await on acquire() resumes: retryWithBackoff is called and invokes
\* the adapter
Admitted(c) ==
  /\ req[c].state = "RateLimited"
  /\ pc[c] = "done"
  /\ req' = [req EXCEPT ![c] = LoopTest(req[c])]
  /\ last' = "invoke"
  /\ obs' = 0
  /\ UNCHANGED <<limiterVars, now, config, provider, tokenUsage>>

\* provider.complete() returns a response: retryWithBackoff returns it,
\* complete() records its usage and returns it
ProviderReturns(c, content, md) ==
  /\ req[c].state = "InFlight" /\ req[c].op = "complete"
  /\ provider # "anthropic"
  /\ LET response == [returned |-> TRUE, content |-> content,
                      usage |-> usageOf(md)]
     IN  /\ tokenUsage' = updateTokenUsage(response.usage)
         /\ req' = [req EXCEPT ![c].state = "Succeeded",
                               ![c].result = response,
                               ![c].recorded = @ + 1]
  /\ last' = "return"
  /\ obs' = 0
  /\ UNCHANGED <<limiterVars, now, config, provider>>

\* provider.complete() or provider.streamComplete() throws
ProviderThrows(c, e) ==
  /\ req[c].state = "InFlight" /\ req[c].op \in {"complete", "stream"}
  /\ req' = [req EXCEPT ![c] = Throws(req[c], e)]
  /\ last' = "throw"
  /\ obs' = 0
  /\ UNCHANGED <<limiterVars, now, config, provider, tokenUsage>>

\* the stream of the adapter yields a fragment: a non-terminal chunk goes
\* through the callback of streamComplete() to the callback of ask()
StreamChunk(c, text) ==
  /\ req[c].state = "InFlight" /\ req[c].op = "stream"
  /\ provider # "anthropic"
  /\ Len(req[c].chunks) < MaxChunks
  /\ LET chunk == Chunk(text, FALSE, NoUsage)
     IN  /\ tokenUsage' = IF RecordsUsage(chunk)
                            THEN updateTokenUsage(chunk.usage) ELSE tokenUsage
         /\ req' = [req EXCEPT
                      ![c].chunks = Append(@, chunk),
                      ![c].fullResponse = Assembled(@, chunk),
                      ![c].recorded = IF RecordsUsage(chunk) THEN @ + 1 ELSE @]
  /\ last' = "chunk"
  /\ obs' = 0
  /\ UNCHANGED <<limiterVars, now, config, provider>>

\* faulty variant of StreamEnd: the adapter goes on after its terminal chunk
StreamEndGoesOn(c, md) ==
  /\ req[c].state = "InFlight" /\ req[c].op = "stream"
  /\ provider # "anthropic"
  /\ \A i \in DOMAIN req[c].chunks : ~req[c].chunks[i].isComplete
  /\ LET chunk == Chunk(<<>>, TRUE, usageOf(md))
     IN  /\ tokenUsage' = IF RecordsUsage(chunk)
                            THEN updateTokenUsage(chunk.usage) ELSE tokenUsage
         /\ req' = [req EXCEPT
                      ![c].chunks = Append(@, chunk),
                      ![c].recorded = IF RecordsUsage(chunk) THEN @ + 1 ELSE @]
  /\ last' = "chunk"
  /\ obs' = 0
  /\ UNCHANGED <<limiterVars, now, config, provider>>

\* the stream of the adapter ends: the terminal chunk goes through the
\* callbacks, streamComplete() returns and ask() returns fullResponse
StreamEnd(c, md) ==
  /\ req[c].state = "InFlight" /\ req[c].op = "stream"
  /\ provider # "anthropic"
  /\ LET chunk == Chunk(<<>>, TRUE, usageOf(md))
         text == Assembled(req[c].fullResponse, chunk)
     IN  /\ tokenUsage' = IF RecordsUsage(chunk)
                            THEN updateTokenUsage(chunk.usage) ELSE tokenUsage
         /\ req' = [req EXCEPT
                      ![c].chunks = Append(@, chunk),
                      ![c].fullResponse = text,
                      ![c].recorded = IF RecordsUsage(chunk) THEN @ + 1 ELSE @,
                      ![c].state = "Succeeded",
                      ![c].result = [returned |-> TRUE, content |-> text,
                                     usage |-> NoUsage]]
  /\ last' = "return"
  /\ obs' = 0
  /\ UNCHANGED <<limiterVars, now, config, provider>>

\* the callers of the service: one, making its requests one after another
Clients == {1}

ServiceNext ==
  \/ \E c \in Clients : Complete(c) /\ UNCHANGED appVars
  \/ \E c \in Clients : AskStream(c) /\ UNCHANGED appVars
  \/ \E c \in Clients : AcquireResume(c) /\ UNCHANGED <<serviceVars, appVars>>
  \/ \E c \in Clients : TimerDue(c) /\ UNCHANGED <<serviceVars, appVars>>
  \/ \E c \in Clients : Admitted(c) /\ UNCHANGED appVars
  \/ \E c \in Clients, text \in Fragments, md \in UsageMetadata :
       ProviderReturns(c, text, md) /\ UNCHANGED appVars
  \/ \E c \in Clients : \E e \in ProviderErrors(provider) :
       ProviderThrows(c, e) /\ UNCHANGED appVars
  \/ \E c \in Clients, text \in Fragments :
       StreamChunk(c, text) /\ UNCHANGED appVars
  \/ \E c \in Clients, md \in UsageMetadata :
       StreamEnd(c, md) /\ UNCHANGED appVars
  \/ \E c \in Clients : BackoffDue(c) /\ UNCHANGED appVars
  \/ \E c \in Clients : BackoffElapsed(c) /\ UNCHANGED appVars

\* an AIService with a limiter of one request per minute
ServiceInit == InitWith({1}) /\ InitService(Providers, ServiceConfigs)
ServiceSpec == ServiceInit /\ [][ServiceNext]_vars

\* ----------------------------------------------------- RateLimiter claims
\* callers suspended in the await of acquire()
Waiting == {c \in Callers : pc[c] = "waiting"}

\* the balance any operation would find after its refill() at the current time
Virtual == Refilled

\* C1: in every reachable state the balance satisfies 0 <= tokens <= maxTokens
\* (stated as claimed, for the limiters with a positive rate; the waiting
\* path's unconditional debit breaks the lower bound)
C1_BalanceInRange ==
  maxTokens > 0 => 0 <= tokens /\ tokens <= maxTokens * Scale

\* C2: at every time t the number of acquire() calls that have returned is at
\* most n + (n/60000) * (t - t0)  (stated as claimed, in 1/Scale of a token,
\* for the limiters with a positive rate)
C2_RateBound ==
  maxTokens > 0 =>
    returned * Scale <= maxTokens * Scale + maxTokens * (now - T0)

\* C3: every completion of acquire() is a normal return, and between its call
\* and its return the balance was debited exactly once for it: a suspended
\* call has debited nothing, a completed call exactly 1, and a step that
\* completes a call leaves the refilled balance minus 1 and no other step
\* lowers the balance
C3_ExactlyOneDebit ==
  /\ [](\A c \in Callers :
          /\ pc[c] \in {"idle", "waiting", "done"}
          /\ pc[c] = "done" => debited[c] = 1
          /\ pc[c] = "waiting" => debited[c] = 0)
  /\ [][/\ returned' = returned + 1 => tokens' = Refilled - Scale
        /\ returned' = returned => tokens' >= tokens]_vars

\* C3 witness: a call that took the waiting path has returned
C3_Witness ==
  \E c \in Callers :
    pc[c] = "done" /\ last = "resume" /\ deadline[c] > T0 /\ debited[c] = 1

\* C4: with requestsPerMinute > 0, a fair scheduler and an advancing clock,
\* every acquire() that suspends eventually returns (the immediate path
\* returns within the step that makes the call)
C4_AcquireReturns ==
  \A c \in Callers : (maxTokens > 0 /\ pc[c] = "waiting") ~> (pc[c] = "done")

\* C4 witness: a suspended call on a limiter with a positive rate has returned
\* while another caller is still suspended
C4_Witness ==
  \E c \in Callers :
    /\ maxTokens > 0 /\ last = "resume" /\ pc[c] = "done"
    /\ Waiting # {}

\* C5: a RateLimiter(0) reports 0 available tokens in every reachable state
\* and none of its acquire() calls ever returns (stated as claimed; the timer
\* runs with a delay of 1 ms when it is given Infinity)
C5_ZeroRateNeverAdmits ==
  maxTokens = 0 =>
    /\ returned = 0
    /\ tokens = 0
    /\ last = "get" => obs = 0

\* C6: a freshly constructed RateLimiter(n) reports getAvailableTokens() = n
\* when it is queried with no elapsed time and before any acquire()
C6_FreshReportsMax ==
  (last = "get" /\ now = T0 /\ calls = 0) => obs = maxTokens

\* C6 witness: a fresh limiter with a positive capacity has been queried
C6_Witness ==
  last = "get" /\ now = T0 /\ calls = 0 /\ maxTokens = 2 /\ obs = 2

\* C7: with no elapsed time, k sequential acquire() calls on a RateLimiter(n)
\* all return without suspending while k <= n and leave
\* getAvailableTokens() = n - k; the call made once the balance is 0 suspends
\* and does not return before the clock advances
C7_SequentialAcquires ==
  now = T0 =>
    /\ returned = Min(calls, maxTokens)
    /\ Cardinality(Waiting) = calls - returned
    /\ tokens = (maxTokens - returned) * Scale
    /\ last = "get" => obs = maxTokens - returned

\* C7 witness: the bucket was emptied at the construction time, the next call
\* is suspended and the limiter reports 0
C7_Witness ==
  /\ now = T0 /\ calls = maxTokens + 1 /\ returned = maxTokens
  /\ maxTokens > 0 /\ pc[1] = "waiting" /\ last = "get" /\ obs = 0

\* C8: if the balance is b at time t and no debit happens until t + d, an
\* observation at t + d sees min(maxTokens, b + d * maxTokens / 60000) (its
\* floor is what getAvailableTokens() returns); a refill never lowers the
\* balance and the balance never exceeds maxTokens
C8_RefillSaturates ==
  /\ [](/\ tokens <= maxTokens * Scale
        /\ last = "get" =>
             /\ tokens = Min(maxTokens * Scale,
                             baseTokens + (now - baseTime) * maxTokens)
             /\ obs = Floor(tokens))
  /\ [][last' = "get" => tokens' >= tokens]_vars

\* C8 witness: RateLimiter(60) exhausted, then 30000 ms later it reports 30
C8_Witness ==
  /\ maxTokens = 60 /\ returned = 60 /\ baseTokens = 0 /\ baseTime = T0
  /\ now = T0 + 30000 /\ last = "get" /\ obs = 30

C10_GetConsumesNothing ==
  [][last' = "get" =>
       /\ obs' = Floor(Virtual)
       /\ tokens' >= tokens
       /\ Virtual' = Virtual
       /\ pc' = pc /\ deadline' = deadline /\ debited' = debited
       /\ returned' = returned /\ calls' = calls]_vars

\* C10 witness: an observation after a debit and a partial refill that
\* returned less than the balance
C10_Witness ==
  /\ last = "get" /\ calls > 0 /\ now > baseTime
  /\ obs * Scale < tokens /\ tokens < maxTokens * Scale

\* C11: no FIFO among waiters.  acquire() admits a call on the balance alone:
\* a call that finds at least one token after its refill returns at once,
\* whoever is already waiting, and leaves every waiter suspended -- so a
\* caller that called later can be admitted before an earlier caller that is
\* still waiting (the execution C11_Witness describes)
C11_NoFifoAmongWaiters ==
  [][(last' = "acquire" /\ Refilled >= Scale) =>
       /\ returned' = returned + 1
       /\ \A w \in Waiting : pc'[w] = "waiting"]_vars

\* C11 witness: caller a suspended in an earlier step and its timer is due
\* (so it called before the current time); caller b called just now, was
\* admitted in the same step, and a is still waiting
C11_Witness ==
  \E a, b \in Callers :
    /\ maxTokens > 0 /\ last = "acquire"
    /\ pc[a] = "waiting" /\ now >= deadline[a]
    /\ pc[b] = "done" /\ debited[b] = 1 /\ baseTime = now
    /\ \A o \in Callers \ {a, b} : pc[o] = "idle"

\* --------------------------------------------------- retryWithBackoff claims
\* requests that have ended
Ended == {c \in Callers : req[c].state \in {"Succeeded", "Failed"}}

\* C12: retryWithBackoff(fn, {maxRetries = m}) invokes fn at least once and
\* at most m + 1 times, whatever fn does and whatever the predicate answers;
\* with m = 0 it invokes fn exactly once; and, every invocation of fn
\* settling, the call ends (returns or throws)
C12_BoundedAttempts ==
  /\ [](\A c \in Callers :
          req[c].op = "retry" =>
            /\ 1 <= req[c].invocations
            /\ req[c].invocations <= config.maxRetries + 1
            /\ (config.maxRetries = 0 /\ c \in Ended)
                 => req[c].invocations = 1)
  /\ \A c \in Callers : (req[c].op = "retry") ~> (c \in Ended)

\* C12 witness: a call with maxRetries >= 1 has ended after maxRetries + 1
\* invocations
C12_Witness ==
  \E c \in Ended :
    /\ req[c].op = "retry" /\ config.maxRetries >= 1
    /\ req[c].invocations = config.maxRetries + 1

\* C13: when the first failure of the operation is rejected by the
\* predicate, retryWithBackoff throws (that error) after exactly one
\* invocation, no backoff delay having been scheduled
C13_RejectedFirstFailure ==
  \A c \in Callers :
    (/\ req[c].op = "retry"
     /\ req[c].raised.by = 1
     /\ ~shouldRetry(req[c].raised.error))
      => /\ req[c].state = "Failed"
         /\ req[c].invocations = 1
         /\ req[c].delays = <<>>
         /\ req[c].thrown = req[c].raised

\* C13 witness: retries were allowed, the predicate rejected the first error
C13_Witness ==
  \E c \in Callers :
    /\ req[c].op = "retry" /\ config.maxRetries >= 1
    /\ req[c].state = "Failed" /\ req[c].raised.by = 1
    /\ ~shouldRetry(req[c].raised.error)

\* C14: the call that fails with accepted errors on attempts 0..k-1 and
\* succeeds on attempt k returns after exactly k delays; the i-th delay
\* (i = 0..k-1) is min(baseDelay * 2^i, maxDelay), maxDelay being 30000 ms
\* unless given; the delays depend on the configuration alone and are
\* non-decreasing
C14_BackoffSchedule ==
  \A c \in Callers :
    LET r == req[c]
        cap == IF config.maxDelay.given THEN config.maxDelay.ms ELSE 30000
        k == Len(r.delays)
    IN  r.op = "retry" =>
          /\ \A i \in 1..k :
               r.delays[i] = Min(config.baseDelay * 2^(i - 1), cap)
          /\ \A i, j \in 1..k : i <= j => r.delays[i] <= r.delays[j]
          /\ k = IF r.state = "Retrying" THEN r.attempt + 1 ELSE r.attempt
          /\ r.state = "Succeeded" =>
               /\ k = r.invocations - 1
               /\ r.result.returned
               /\ r.thrown = NoError

\* C14 witness: two accepted failures, then success, the second delay capped
\* at the default maxDelay
C14_Witness ==
  \E c \in Callers :
    /\ req[c].op = "retry" /\ req[c].state = "Succeeded"
    /\ req[c].delays = <<20000, 30000>> /\ ~config.maxDelay.given

\* C15: a call that ends without a successful attempt throws, and what it
\* throws is the very object the last invocation of the operation raised; it
\* returns normally only if an attempt succeeded
C15_ErrorPropagatedUnchanged ==
  \A c \in Callers :
    LET r == req[c]
    IN  r.op = "retry" =>
          /\ r.state = "Failed" =>
               /\ r.thrown = r.raised
               /\ r.thrown.by = r.invocations
               /\ r.thrown.error \in FnErrors
               /\ ~r.result.returned
          /\ r.state = "Succeeded" =>
               /\ r.result.returned
               /\ r.thrown = NoError
               /\ r.raised.by < r.invocations
          /\ r.result.returned => r.state = "Succeeded"

\* C15 witness: the retries were used up and the error of the last
\* invocation, not of the first, was thrown
C15_Witness ==
  \E c \in Callers :
    /\ req[c].op = "retry" /\ req[c].state = "Failed"
    /\ req[c].invocations >= 2 /\ req[c].thrown.by = req[c].invocations

\* ---------------------------------------------------------- AIService claims
\* the requests made through AIService
ServiceOps == {"complete", "stream"}

\* error kinds the adapters use for permanent failures
PermanentTypes ==
  {"INVALID_API_KEY", "CONTENT_FILTERED", "UNKNOWN_ERROR", "NOT_IMPLEMENTED",
   "authentication", "content_filter", "invalid_request", "unknown"}

\* C16 (as claimed): when the adapter fails with an error it classified as
\* rate-limit or network error, complete() with maxRetries = m >= 1 invokes
\* the adapter again, so that a call which ends with such an error has made
\* m + 1 invocations
C16_TransientRetried ==
  \A c \in Callers :
    LET r == req[c]
    IN  (/\ r.op = "complete" /\ config.maxRetries >= 1
         /\ r.state = "Failed"
         /\ r.thrown.error.class = "AIServiceError"
         /\ r.thrown.error.type \in TransientTypes)
          => r.invocations = config.maxRetries + 1

\* C17: when the adapter fails with an error classified as authentication,
\* content-filter, invalid-request or unknown (or not implemented), or with
\* an error that is not an AIServiceError, the default predicate rejects it:
\* the call fails with that error and the adapter is not invoked again -- it
\* is invoked exactly once when this is the first failure, whatever
\* maxRetries is
C17_PermanentNeverRetried ==
  \A c \in Callers :
    LET r == req[c]
        e == r.raised.error
    IN  (/\ r.op \in ServiceOps /\ r.raised # NoError
         /\ \/ e.class # "AIServiceError"
            \/ e.type \in PermanentTypes)
          => /\ ~Truthy(defaultShouldRetry(e))
             /\ r.state = "Failed"
             /\ r.thrown = r.raised
             /\ r.invocations = r.raised.by
             /\ provider \in {"gemini", "anthropic"} => r.invocations = 1

\* C17 witness: retries were allowed and the Gemini adapter failed with an
\* authentication error
C17_Witness ==
  \E c \in Callers :
    /\ req[c].op \in ServiceOps /\ config.maxRetries >= 1
    /\ provider = "gemini" /\ req[c].state = "Failed"
    /\ req[c].thrown.error.type = "INVALID_API_KEY"
    /\ req[c].invocations = 1

\* the state changes of a request
Transitions ==
  {<<"Idle", "RateLimited">>, <<"RateLimited", "InFlight">>,
   <<"InFlight", "Succeeded">>, <<"InFlight", "Retrying">>,
   <<"InFlight", "Failed">>, <<"Retrying", "InFlight">>,
   <<"Succeeded", "RateLimited">>, <<"Failed", "RateLimited">>}

RECURSIVE Concatenation(_)
\* the concatenation of the contents of the non-terminal chunks, in order
Concatenation(chunks) ==
  IF chunks = <<>> THEN <<>>
  ELSE (IF Head(chunks).isComplete THEN <<>> ELSE Head(chunks).content)
         \o Concatenation(Tail(chunks))

\* the last chunk of a request (no chunk: a non-terminal one without usage)
LastChunk(r) ==
  IF r.chunks = <<>> THEN Chunk(<<>>, FALSE, NoUsage)
  ELSE r.chunks[Len(r.chunks)]

AttemptChunks(r) == SubSeq(r.chunks, r.attemptStart + 1, Len(r.chunks))

KnownProviders == {"gemini", "anthropic"}

\* the values config.ai.provider may hold
ProviderNames == KnownProviders \cup {"openai", Undefined}

\* rateLimitPerMinute of the provider configurations
RpmConfigured == {1, 2}

\* AIService.createProvider(providerName, providerConfig): the adapter it
\* returns, or the error it throws
createProvider(providerName) ==
  CASE providerName = "anthropic" ->
         [adapter |-> "anthropic", thrown |-> NotThrown]
    [] providerName = "gemini" ->
         [adapter |-> "gemini", thrown |-> NotThrown]
    [] OTHER ->
         [adapter |-> Undefined,
          thrown |-> Error(<<"Unknown provider: ", providerName>>)]

\* `new AIService()` (run when the module is loaded), for the values of
\* config.ai.provider and of the provider configuration: createProvider,
\* then new RateLimiter(rateLimitPerMinute), maxRetries, retryDelay and
\* the zeroed ledger.  An error of createProvider leaves the constructor
\* before any of the assignments.
NewAIService(providerName, rpm, retries, retryDelay) ==
  /\ svc.phase = "none"
  /\ LET made == createProvider(providerName)
     IN  IF made.thrown # NotThrown
           THEN /\ svc' = ConstructionFailed(providerName, <<>>, 0,
                                             made.thrown)
                /\ UNCHANGED <<maxTokens, tokens, lastRefill, baseTokens,
                               baseTime, config, provider, tokenUsage,
                               resetDate>>
           ELSE /\ svc' = Constructed(providerName)
                /\ provider' = made.adapter
                /\ maxTokens' = rpm
                /\ tokens' = rpm * Scale
                /\ lastRefill' = now
                /\ baseTokens' = rpm * Scale
                /\ baseTime' = now
                /\ config' = [config EXCEPT !.maxRetries = retries,
                                            !.baseDelay = retryDelay]
                /\ tokenUsage' = ZeroUsage
                /\ resetDate' = now
  /\ last' = "new"
  /\ obs' = 0
  /\ UNCHANGED <<now, pc, deadline, debited, calls, returned, ticks, req,
                 ledgerVars, restVars, deskVars>>

\* the module of the service is loaded and, when its constructor returned,
\* requests are made through the exported instance.  No backoff timer is
\* ever started here: the adapters createProvider makes raise no error the
\* default predicate accepts.
ConstructNext ==
  \/ \E providerName \in ProviderNames, rpm \in RpmConfigured,
        retries \in 0..MaxRetries :
       NewAIService(providerName, rpm, retries, 1000)
  \/ /\ svc.phase = "constructed"
     /\ \E c \in Clients : Complete(c) /\ UNCHANGED appVars
  \/ /\ svc.phase = "constructed"
     /\ \E c \in Clients : AskStream(c) /\ UNCHANGED appVars
  \/ \E c \in Clients :
       AcquireResume(c) /\ UNCHANGED <<serviceVars, appVars>>
  \/ \E c \in Clients : TimerDue(c) /\ UNCHANGED <<serviceVars, appVars>>
  \/ \E c \in Clients : Admitted(c) /\ UNCHANGED appVars
  \/ \E c \in Clients, text \in Fragments, md \in UsageMetadata :
       ProviderReturns(c, text, md) /\ UNCHANGED appVars
  \/ \E c \in Clients : \E e \in ProviderErrors(provider) :
       ProviderThrows(c, e) /\ UNCHANGED appVars
  \/ \E c \in Clients, text \in Fragments :
       StreamChunk(c, text) /\ UNCHANGED appVars
  \/ \E c \in Clients, md \in UsageMetadata :
       StreamEnd(c, md) /\ UNCHANGED appVars

\* before the module of the service is loaded; the fields of the service
\* and of its limiter hold placeholders that nothing reads
ConstructInit ==
  /\ InitWith({0})
  /\ provider = Undefined
  /\ config = [maxRetries |-> 0, baseDelay |-> 1000,
               maxDelay |-> [given |-> FALSE, ms |-> 0],
               shouldRetry |-> [given |-> FALSE, accepts |-> {}]]
  /\ tokenUsage = ZeroUsage
  /\ req = [c \in Callers |-> IdleRequest]
  /\ svc = NotConstructed
  /\ AppInit

ConstructSpec == ConstructInit /\ [][ConstructNext]_vars

\* C21 (as claimed): constructing the service with a provider id that is
\* neither "gemini" nor "anthropic" fails during construction, before any
\* request, with an AIServiceError of the invalid-request class, and
\* neither an adapter nor a rate limiter has been constructed
C21_UnknownProviderFailsFast ==
  (svc.phase # "none" /\ svc.providerName \notin KnownProviders) =>
    /\ svc.phase = "failed"
    /\ svc.thrown.class = "AIServiceError"
    /\ Get(svc.thrown, "type") \in {"invalid_request", "INVALID_REQUEST"}
    /\ svc.adapters = <<>> /\ svc.limiters = 0
    /\ \A c \in Callers : req[c].state = "Idle"

\* what the constructor does for an unknown provider id: it throws a plain
\* Error before any request, with no adapter and no limiter made
C21_FailsFastPlainError ==
  (svc.phase # "none" /\ svc.providerName \notin KnownProviders) =>
    /\ svc.phase = "failed"
    /\ svc.thrown = Error(<<"Unknown provider: ", svc.providerName>>)
    /\ svc.adapters = <<>> /\ svc.limiters = 0
    /\ \A c \in Callers : req[c].state = "Idle" /\ pc[c] = "idle"

\* ------------------------------------------------------ TokenUsageTracker
\* `x || 0` for the optional estimatedCost of a usage given to track()
OrZero(x) == IF x = <<>> THEN 0 ELSE x[1]

\* faulty variant of track: the new usage replaces the running total
trackOverwrites(p, usage) ==
  [tracker EXCEPT
     !.usage[p] =
        [promptTokens |-> usage.promptTokens,
         completionTokens |-> usage.completionTokens,
         totalTokens |-> usage.totalTokens,
         estimatedCost |-> OrZero(usage.estimatedCost)],
     !.requestCount[p] = @ + 1]

\* TokenUsageTracker.track(provider, usage): the tracker after the call
track(p, usage) ==
  LET current == tracker.usage[p]
  IN  [tracker EXCEPT
         !.usage[p] =
            [promptTokens |-> current.promptTokens + usage.promptTokens,
             completionTokens |->
               current.completionTokens + usage.completionTokens,
             totalTokens |-> current.totalTokens + usage.totalTokens,
             estimatedCost |->
               current.estimatedCost + OrZero(usage.estimatedCost)],
         !.requestCount[p] = @ + 1]

\* TokenUsageTracker.getUsage(provider): a new object with the properties
\* of the entry of the map
getUsage(p) ==
  IF p \in DOMAIN tracker.usage
    THEN tracker.usage[p] ELSE EmptyObject

\* TokenUsageTracker.getRequestCount(provider)
getRequestCount(p) ==
  IF p \in DOMAIN tracker.requestCount
    THEN tracker.requestCount[p] ELSE 0

\* the entries of a map of the tracker, in the order of their insertion
Keys(map) == SelectSeq(AIProvider, LAMBDA p : p \in DOMAIN map)

\* faulty variant of getTotalUsage: `=` in place of `+=`
getTotalUsageLast ==
  IF Keys(tracker.usage) = <<>> THEN ZeroTokenUsage
  ELSE tracker.usage[Keys(tracker.usage)[Len(Keys(tracker.usage))]]

\* TokenUsageTracker.getTotalUsage(): the forEach over the map usage
getTotalUsage ==
  LET keys == Keys(tracker.usage)
      RECURSIVE total(_)
      total(i) ==
        IF i = 0 THEN ZeroTokenUsage
        ELSE LET sum == total(i - 1)
                 usage == tracker.usage[keys[i]]
             IN  [promptTokens |-> sum.promptTokens + usage.promptTokens,
                  completionTokens |->
                    sum.completionTokens + usage.completionTokens,
                  totalTokens |-> sum.totalTokens + usage.totalTokens,
                  estimatedCost |-> sum.estimatedCost + usage.estimatedCost]
  IN  total(Len(keys))

\* TokenUsageTracker.getTotalRequestCount(): the forEach over requestCount
getTotalRequestCount ==
  LET keys == Keys(tracker.requestCount)
      RECURSIVE total(_)
      total(i) ==
        IF i = 0 THEN 0 ELSE total(i - 1) + tracker.requestCount[keys[i]]
  IN  total(Len(keys))

\* TokenUsageTracker.getUptime()
getUptime == now - tracker.startTime

\* TokenUsageTracker.getSummary()
getSummary ==
  [totalUsage |-> getTotalUsage,
   byProvider |->
     [p \in {AIProvider[i] : i \in DOMAIN AIProvider} |->
        LET usage == getUsage(p)
        IN  [f \in DOMAIN usage \cup {"requests"} |->
               IF f = "requests" THEN getRequestCount(p) ELSE usage[f]]],
   uptime |-> getUptime,
   totalRequests |-> getTotalRequestCount]

RECURSIVE Sum(_, _)
\* the sum of f[x] over the x in S
Sum(f, S) ==
  IF S = {} THEN 0
  ELSE LET x == CHOOSE y \in S : TRUE IN f[x] + Sum(f, S \ {x})

\* tracker.track(provider, usage) is called
Track(p, usage) ==
  /\ Sum(tracked, TrackCalls) < MaxTracks
  /\ tracker' = track(p, usage)
  /\ tracked' = [tracked EXCEPT ![<<p, usage>>] = @ + 1]
  /\ last' = "track"
  /\ obs' = 0
  /\ UNCHANGED <<limiterVars, now, serviceVars, svc, deskVars, restVars,
                 resetDate, snap>>

\* faulty variant of Reset: the maps are cleared and not filled again
ResetClears ==
  /\ tracker' = [usage |-> EmptyObject, requestCount |-> EmptyObject,
                 startTime |-> now]
  /\ tracked' = [call \in TrackCalls |-> 0]
  /\ last' = "reset"
  /\ obs' = 0
  /\ UNCHANGED <<limiterVars, now, serviceVars, svc, deskVars, restVars,
                 resetDate, snap>>

\* tracker.reset() is called: both maps are cleared, startTime is renewed
\* and every p is entered again with zeros
Reset ==
  /\ tracker' = NewTracker(now)
  /\ tracked' = [call \in TrackCalls |-> 0]
  /\ last' = "reset"
  /\ obs' = 0
  /\ UNCHANGED <<limiterVars, now, serviceVars, svc, deskVars, restVars,
                 resetDate, snap>>

\* tracker.getUsage(provider) is called and its result kept by the caller
GetUsage(p) ==
  /\ snap' = [of |-> "usage", key |-> p, value |-> getUsage(p),
              date |-> NoSnapshot.date]
  /\ last' = "snapshot"
  /\ obs' = 0
  /\ UNCHANGED <<limiterVars, now, serviceVars, svc, deskVars, restVars,
                 resetDate, tracker,
                 tracked>>

\* the provider ids of the enum
AIProviders == {AIProvider[i] : i \in DOMAIN AIProvider}

\* a tracker in use: track, reset and getUsage calls while time passes
TrackerNext ==
  \/ \E call \in TrackCalls : Track(call[1], call[2])
  \/ Reset
  \/ \E p \in AIProviders : GetUsage(p)
  \/ \E d \in TickSteps : Tick(d) /\ UNCHANGED <<serviceVars, appVars>>

TrackerSpec ==
  /\ InitRpm1
  /\ [][TrackerNext]_vars

\* the sum of field f of the usages tracked for provider p, by the record of
\* the calls
TrackedSum(p, f) ==
  Sum([call \in TrackCalls |->
         IF call[1] = p
           THEN tracked[call]
                  * (IF f = "estimatedCost" THEN OrZero(call[2][f])
                     ELSE call[2][f])
           ELSE 0],
      TrackCalls)

\* the number of track calls made for provider p
TrackedCount(p) ==
  Sum([call \in TrackCalls |-> IF call[1] = p THEN tracked[call] ELSE 0],
      TrackCalls)

\* C22: after any sequence of track(p, u) calls since construction or the
\* last reset(), every field of getUsage(p) is the sum of that field over
\* the usages tracked for p and getRequestCount(p) is the number of track
\* calls for p; and a track(p, u) call leaves the totals and the count of
\* every other provider as they were
C22_TrackerAdditive ==
  /\ [](\A p \in AIProviders :
          /\ \A f \in DOMAIN ZeroTokenUsage : getUsage(p)[f] = TrackedSum(p, f)
          /\ getRequestCount(p) = TrackedCount(p))
  /\ [][\A call \in TrackCalls :
          tracked'[call] = tracked[call] + 1 =>
            \A q \in AIProviders \ {call[1]} :
              /\ getUsage(q)' = getUsage(q)
              /\ getRequestCount(q)' = getRequestCount(q)]_vars

\* C22 witness: {10, 5, 15} was tracked twice for gemini after a reset, and
\* another usage once for anthropic
C22_Witness ==
  /\ last = "track"
  /\ tracker.startTime > T0
  /\ getUsage("gemini") = [promptTokens |-> 20, completionTokens |-> 10,
                           totalTokens |-> 30, estimatedCost |-> 0]
  /\ getRequestCount("gemini") = 2
  /\ getRequestCount("anthropic") = 1

\* C23: in every reachable state of a tracker, every field of
\* getTotalUsage() is the sum of that field of getUsage(p) over the
\* providers, getTotalRequestCount() is the sum of getRequestCount(p), and
\* getSummary() reports these totals and, per provider, the fields of
\* getUsage(p) and getRequestCount(p)
C23_TotalsAreSums ==
  /\ \A f \in DOMAIN ZeroTokenUsage :
       getTotalUsage[f] =
         Sum([p \in AIProviders |-> getUsage(p)[f]], AIProviders)
  /\ getTotalRequestCount =
       Sum([p \in AIProviders |-> getRequestCount(p)], AIProviders)
  /\ getSummary.totalUsage = getTotalUsage
  /\ getSummary.totalRequests = getTotalRequestCount
  /\ DOMAIN getSummary.byProvider = AIProviders
  /\ \A p \in AIProviders :
       /\ \A f \in DOMAIN ZeroTokenUsage :
            getSummary.byProvider[p][f] = getUsage(p)[f]
       /\ getSummary.byProvider[p].requests = getRequestCount(p)

\* C23 witness: both providers have usage, and the total is 15 + 3 tokens
\* over 2 requests
C23_Witness ==
  /\ getUsage("gemini").totalTokens = 15
  /\ getUsage("anthropic").totalTokens = 3
  /\ getTotalUsage.totalTokens = 18
  /\ getSummary.totalUsage.estimatedCost = 4
  /\ getSummary.totalRequests = 2

\* the accumulators and counts of the tracker are the ones reset() leaves
Zeroed ==
  \A p \in AIProviders :
    getUsage(p) = ZeroTokenUsage /\ getRequestCount(p) = 0

\* C24: in every reachable state (after construction, after track calls,
\* after a reset) both maps of the tracker have an entry for every provider
\* id of the enum, so that getUsage(p) is a full TokenUsage; right after
\* reset() every getUsage(p) is all zeros and every getRequestCount(p) is 0;
\* and reset() on a tracker that is already zeroed changes no accumulator
\* and no count
C24_ResetZeroesAndKeepsTotal ==
  /\ [](\A p \in AIProviders :
          /\ p \in DOMAIN tracker.usage
          /\ p \in DOMAIN tracker.requestCount
          /\ DOMAIN getUsage(p) = DOMAIN ZeroTokenUsage)
  /\ [][last' = "reset" => Zeroed']_vars
  /\ [][(last' = "reset" /\ Zeroed) =>
          /\ tracker'.usage = tracker.usage
          /\ tracker'.requestCount = tracker.requestCount]_vars

\* C24 witness: a reset at a later time, of a tracker whose gemini total was
\* seen to be 15 tokens
C24_Witness ==
  /\ last = "reset"
  /\ snap.of = "usage" /\ snap.key = "gemini" /\ snap.value.totalTokens = 15
  /\ tracker.startTime > T0
  /\ Zeroed

\* ------------------------------------------------------------- snapshots
\* The object getTokenUsage() returns is a new object whose properties are
\* copies of those of this.tokenUsage; the property lastReset holds a
\* reference, so the Date object is the one of the service (date.shared)
\* until resetTokenUsage() gives the service a new one.

\* the time value of the Date the snapshot holds in lastReset
SnapDate == IF snap.date.shared THEN resetDate ELSE snap.date.time

\* what the holder of the snapshot reads from it
SnapRead == [value |-> snap.value, lastReset |-> SnapDate]

\* what a call of AIService.getTokenUsage() returns, as its caller reads it
getTokenUsage == [value |-> tokenUsage, lastReset |-> resetDate]

\* aiService.getTokenUsage() is called and its result kept by the caller
GetTokenUsage ==
  /\ snap' = [of |-> "tokenUsage", key |-> "none", value |-> tokenUsage,
              date |-> [shared |-> TRUE, time |-> 0]]
  /\ last' = "snapshot"
  /\ obs' = 0
  /\ UNCHANGED <<limiterVars, now, serviceVars, svc, deskVars, restVars,
                 resetDate, tracker,
                 tracked>>

\* aiService.resetTokenUsage() is called: a new ledger object with a new
\* Date; a snapshot taken before keeps the Date it has
ResetTokenUsage ==
  /\ tokenUsage' = ZeroUsage
  /\ resetDate' = now
  /\ snap' = IF snap.date.shared
               THEN [snap EXCEPT !.date = [shared |-> FALSE,
                                           time |-> resetDate]]
               ELSE snap
  /\ last' = "reset"
  /\ obs' = 0
  /\ UNCHANGED <<limiterVars, now, config, provider, req, svc, deskVars, restVars,
                 tracker, tracked>>

\* the holder of a snapshot assigns v to its property f
MutateSnapshot(f, v) ==
  /\ snap.of # "none"
  /\ f \in DOMAIN snap.value
  /\ snap.value[f] # v
  /\ snap' = [snap EXCEPT !.value[f] = v]
  /\ last' = "mutate"
  /\ obs' = 0
  /\ UNCHANGED <<limiterVars, now, serviceVars, svc, deskVars, restVars,
                 resetDate, tracker,
                 tracked>>

\* the holder of a snapshot of the service calls lastReset.setTime(t)
SnapshotSetTime(t) ==
  /\ snap.of = "tokenUsage"
  /\ SnapDate # t
  /\ IF snap.date.shared
       THEN resetDate' = t /\ UNCHANGED snap
       ELSE snap' = [snap EXCEPT !.date.time = t] /\ UNCHANGED resetDate
  /\ last' = "mutate"
  /\ obs' = 0
  /\ UNCHANGED <<limiterVars, now, serviceVars, svc, deskVars, restVars,
                 tracker, tracked>>

\* complete() requests and track() calls while snapshots of both ledgers
\* are taken and changed by their holders
SnapshotNext ==
  \/ \E c \in Clients : Complete(c) /\ UNCHANGED appVars
  \/ \E c \in Clients :
       AcquireResume(c) /\ UNCHANGED <<serviceVars, appVars>>
  \/ \E c \in Clients : TimerDue(c) /\ UNCHANGED <<serviceVars, appVars>>
  \/ \E c \in Clients : Admitted(c) /\ UNCHANGED appVars
  \/ \E c \in Clients, md \in UsageMetadata :
       ProviderReturns(c, <<"a">>, md) /\ UNCHANGED appVars
  \/ \E u \in TokenUsages : Track("gemini", u)
  \/ Reset
  \/ ResetTokenUsage
  \/ \E p \in AIProviders : GetUsage(p)
  \/ GetTokenUsage
  \/ MutateSnapshot("promptTokens", 999)
  \/ SnapshotSetTime(0)

SnapshotSpec ==
  /\ InitRpm1
  /\ [][SnapshotNext]_vars

\* C25 (as claimed): a value returned by getUsage(p) or getTokenUsage()
\* reads the same after later track, complete and reset calls, and a change
\* its holder makes to it changes nothing of what later getUsage(p) and
\* getTokenUsage() calls return
C25_SnapshotsNotLive ==
  /\ [][last' \notin {"snapshot", "mutate"} => SnapRead' = SnapRead]_vars
  /\ [][last' = "mutate" =>
          /\ \A p \in AIProviders : getUsage(p)' = getUsage(p)
          /\ getTokenUsage' = getTokenUsage]_vars

\* what holds of the snapshots: later track, complete and reset calls do not
\* show in them, and assigning to the properties of a snapshot changes
\* nothing of what later calls return
C25_ShallowSnapshots ==
  /\ [][last' \notin {"snapshot", "mutate"} => SnapRead' = SnapRead]_vars
  /\ [][(last' = "mutate" /\ snap' # snap) =>
          /\ \A p \in AIProviders : getUsage(p)' = getUsage(p)
          /\ getTokenUsage' = getTokenUsage]_vars

\* ----------------------------------------------------------- AIService.ask
\* the optional systemPrompt: absent, the empty string, a text
SystemPrompts == {NoText, Text(<<>>), Text(<<"s">>)}

\* the optional options: absent, without stream, with stream true or false
AskOptions ==
  {EmptyObject, [maxTokens |-> "100"], [stream |-> "true"],
   [stream |-> "false"]}

\* the truthiness of an optional string (undefined and "" are falsy)
TruthyText(s) == s.given /\ s.text # <<>>

\* faulty variant of AskMessages: the user turn is pushed first
AskMessagesUserFirst(prompt, systemPrompt) ==
  <<[role |-> "user", content |-> prompt]>>
    \o (IF TruthyText(systemPrompt)
          THEN <<[role |-> "system", content |-> systemPrompt.text]>>
          ELSE <<>>)

\* the array `messages` that ask() builds
AskMessages(prompt, systemPrompt) ==
  (IF TruthyText(systemPrompt)
     THEN <<[role |-> "system", content |-> systemPrompt.text]>>
     ELSE <<>>)
    \o <<[role |-> "user", content |-> prompt]>>

\* ask(prompt, systemPrompt, options) is called: it builds the messages and
\* calls streamComplete() or complete(), which calls rateLimiter.acquire()
Ask(c, prompt, systemPrompt, options) ==
  /\ req[c].state \in {"Idle", "Succeeded", "Failed"}
  /\ Acquire(c)
  /\ LET messages == AskMessages(prompt, systemPrompt)
         stream == Truthy(Get(options, "stream"))
         request == [via |-> IF stream THEN "streamComplete" ELSE "complete",
                     messages |-> messages,
                     stream |-> IF stream THEN "true" ELSE Undefined]
     IN  /\ req' = [req EXCEPT
                      ![c] = NewRequest(IF stream THEN "stream"
                                        ELSE "complete")]
         /\ asked' = [asked EXCEPT
                        ![c] = [called |-> TRUE, prompt |-> prompt,
                                systemPrompt |-> systemPrompt,
                                options |-> options,
                                requests |-> <<request>>,
                                returned |-> NoText]]
  /\ UNCHANGED <<config, provider, tokenUsage, svc, deskVars, resetDate, ledgerVars,
                 applied, app>>

\* complete() returns the response to ask(), which returns response.content
AskReturns(c, content, md) ==
  /\ ProviderReturns(c, content, md)
  /\ asked' = [asked EXCEPT ![c].returned = Text(req'[c].result.content)]
  /\ UNCHANGED <<svc, deskVars, resetDate, ledgerVars, applied, app>>

\* streamComplete() returns to ask(), which returns fullResponse
AskStreamReturns(c, md) ==
  /\ StreamEnd(c, md)
  /\ asked' = [asked EXCEPT ![c].returned = Text(req'[c].fullResponse)]
  /\ UNCHANGED <<svc, deskVars, resetDate, ledgerVars, applied, app>>

\* ask() calls, one after another, on a service with any of the adapters
AskNext ==
  \/ \E c \in Clients, systemPrompt \in SystemPrompts,
        options \in AskOptions : Ask(c, <<"p">>, systemPrompt, options)
  \/ \E c \in Clients :
       AcquireResume(c) /\ UNCHANGED <<serviceVars, appVars>>
  \/ \E c \in Clients : TimerDue(c) /\ UNCHANGED <<serviceVars, appVars>>
  \/ \E c \in Clients : Admitted(c) /\ UNCHANGED appVars
  \/ \E c \in Clients, text \in Fragments, md \in UsageMetadata :
       AskReturns(c, text, md)
  \/ \E c \in Clients : \E e \in ProviderErrors(provider) :
       ProviderThrows(c, e) /\ UNCHANGED appVars
  \/ \E c \in Clients, text \in Fragments :
       StreamChunk(c, text) /\ UNCHANGED appVars
  \/ \E c \in Clients, md \in UsageMetadata : AskStreamReturns(c, md)
  \/ \E c \in Clients : BackoffDue(c) /\ UNCHANGED appVars
  \/ \E c \in Clients : BackoffElapsed(c) /\ UNCHANGED appVars

AskSpec ==
  /\ ServiceInit
  /\ [][AskNext]_vars

\* C26: an ask(prompt, systemPrompt, options) call has made exactly one
\* request.  Its messages are the system turn with systemPrompt followed by
\* the user turn with prompt when a (non-empty) system prompt was given, and
\* the user turn alone otherwise; the request went to streamComplete() when
\* options.stream is true and to complete() otherwise; and a call that went
\* to complete() and returned has returned the content of the response
C26_AskSendsOneRequest ==
  \A c \in Callers :
    asked[c].called =>
      LET a == asked[c]
          request == a.requests[1]
          m == request.messages
          user == [role |-> "user", content |-> a.prompt]
      IN  /\ Len(a.requests) = 1
          /\ IF a.systemPrompt \in {NoText, Text(<<>>)}
               THEN m = <<user>>
               ELSE /\ Len(m) = 2
                    /\ m[1] = [role |-> "system",
                               content |-> a.systemPrompt.text]
                    /\ m[2] = user
          /\ request.via =
               (IF Get(a.options, "stream") = "true" THEN "streamComplete"
                ELSE "complete")
          /\ req[c].op =
               (IF request.via = "streamComplete" THEN "stream"
                ELSE "complete")
          /\ (request.via = "complete" /\ req[c].state = "Succeeded") =>
               /\ req[c].result.returned
               /\ a.returned = Text(req[c].result.content)
          /\ req[c].state # "Succeeded" => a.returned = NoText

\* C26 witness: an ask() with a system prompt and without options returned
\* the content of the response of the second attempt
C26_Witness ==
  \E c \in Callers :
    /\ asked[c].called /\ asked[c].systemPrompt = Text(<<"s">>)
    /\ asked[c].options = EmptyObject
    /\ Len(asked[c].requests[1].messages) = 2
    /\ req[c].state = "Succeeded" /\ req[c].invocations = 2
    /\ asked[c].returned = Text(<<"b", "c">>)

\* ------------------------------------------- the functions of the adapter
\* the phrases the message of a failure of the backend is made of
Phrases ==
  {"quota", "rate limit", "API key", "authentication", "safety", "blocked",
   "other"}

\* the failures of the backend: a message of up to MaxPhrases phrases (the
\* empty message included), a code, a statusCode
BackendErrors ==
  {[message |-> m, code |-> c, statusCode |-> sc] :
     m \in UNION {[1..n -> Phrases] : n \in 0..MaxPhrases},
     c \in {Undefined, "ECONNREFUSED", "ETIMEDOUT", "ENOTFOUND"},
     sc \in {Undefined, "500"}}

\* the catch block of the adapter calls this.handleError(error)
HandleError(error) ==
  /\ applied' = [fn |-> "handleError", input |-> error,
                 output |-> handleError(error)]
  /\ last' = "apply"
  /\ obs' = 0
  /\ UNCHANGED <<limiterVars, now, serviceVars, svc, deskVars, resetDate, ledgerVars,
                 asked, app>>

\* the separator of the prompt: a blank line ("\n\n"), as one character
Separator == "\n\n"

\* the contents of the messages: texts without and with a blank line
Contents == {<<"a">>, <<"b">>, <<"a", Separator, "b">>}

\* the message arrays of the requests: up to MaxMessages messages with the
\* roles of MessageRole
MessageArrays ==
  UNION {[1..n -> [role : {"system", "user", "assistant"},
                   content : Contents]] : n \in 0..MaxMessages}

\* the text formatMessages puts before the content of a message of a role
Label(role) ==
  CASE role = "system" -> <<"[System Instructions]: ">>
    [] role = "user" -> <<"User: ">>
    [] role = "assistant" -> <<"Assistant: ">>
    [] OTHER -> <<>>

RECURSIVE Join(_, _)
\* parts.join(separator)
Join(parts, separator) ==
  IF parts = <<>> THEN <<>>
  ELSE IF Len(parts) = 1 THEN parts[1]
  ELSE parts[1] \o <<separator>> \o Join(Tail(parts), separator)

\* faulty variant of formatMessages: the messages are taken last to first
formatMessagesReversed(messages) ==
  Join([i \in DOMAIN messages |->
          LET msg == messages[Len(messages) + 1 - i]
          IN  Label(msg.role) \o msg.content],
       Separator)

\* GeminiProvider.formatMessages(messages)
formatMessages(messages) ==
  Join([i \in DOMAIN messages |->
          Label(messages[i].role) \o messages[i].content],
       Separator)

\* complete() or streamComplete() of the adapter calls
\* this.formatMessages(request.messages)
FormatMessages(messages) ==
  /\ applied' = [fn |-> "formatMessages", input |-> messages,
                 output |-> formatMessages(messages)]
  /\ last' = "apply"
  /\ obs' = 0
  /\ UNCHANGED <<limiterVars, now, serviceVars, svc, deskVars, resetDate, ledgerVars,
                 asked, app>>

\* the functions of the Gemini adapter, applied to their inputs
AdapterNext ==
  \/ \E error \in BackendErrors : HandleError(error)
  \/ \E messages \in MessageArrays : FormatMessages(messages)

AdapterSpec ==
  /\ InitRpm1
  /\ [][AdapterNext]_vars

\* the rules of the classification, in their order of priority: whether
\* each applies to the failure error
Rules(error) ==
  <<Includes(error.message, "quota") \/ Includes(error.message, "rate limit"),
    Includes(error.message, "API key")
      \/ Includes(error.message, "authentication"),
    Includes(error.message, "safety") \/ Includes(error.message, "blocked"),
    error.code \in {"ECONNREFUSED", "ETIMEDOUT"},
    TRUE>>

\* the kinds of the rules, and whether each kind is to be retried
Kinds ==
  <<[type |-> "RATE_LIMIT_EXCEEDED", retryable |-> "true"],
    [type |-> "INVALID_API_KEY", retryable |-> "false"],
    [type |-> "CONTENT_FILTERED", retryable |-> "false"],
    [type |-> "NETWORK_ERROR", retryable |-> "true"],
    [type |-> "UNKNOWN_ERROR", retryable |-> "false"]>>

\* the first rule that applies to the failure error
FirstRule(error) ==
  CHOOSE i \in 1..5 :
    Rules(error)[i] /\ \A j \in 1..(i - 1) : ~Rules(error)[j]

\* C27 (as claimed): every failure of the backend is turned into exactly
\* one AIServiceError, whose kind is the kind of the first rule that applies
\* (quota / rate limit text, API key / authentication text, safety /
\* blocked text, connection refused / timeout code, anything else) and which
\* is retryable for the rate-limit and network kinds and not retryable for
\* the others
C27_ClassifiedByFirstRule ==
  applied.fn = "handleError" =>
    LET kind == Kinds[FirstRule(applied.input)]
    IN  /\ applied.output.class = "AIServiceError"
        /\ applied.output.type = kind.type
        /\ Get(applied.output, "retryable") = kind.retryable

\* what holds of the classification: the kind is the kind of the first rule
\* that applies
C27_KindByFirstRule ==
  applied.fn = "handleError" =>
    /\ applied.output.class = "AIServiceError"
    /\ applied.output.type = Kinds[FirstRule(applied.input)].type
    /\ Cardinality({i \in 1..5 : applied.output.type = Kinds[i].type}) = 1

RECURSIVE Split(_)
\* text.split(Separator): the pieces of a text between its blank lines
Split(text) ==
  IF \A i \in DOMAIN text : text[i] # Separator THEN <<text>>
  ELSE LET i == CHOOSE k \in DOMAIN text :
                  /\ text[k] = Separator
                  /\ \A j \in 1..(k - 1) : text[j] # Separator
       IN  <<SubSeq(text, 1, i - 1)>> \o Split(SubSeq(text, i + 1, Len(text)))

\* the segments a prompt consists of (the empty prompt: none)
Segments(prompt) == IF prompt = <<>> THEN <<>> ELSE Split(prompt)

\* the prompt consists of exactly one segment per message of the array, in
\* the order of the array, each the content of its message after the label
\* of its role
SegmentPerMessage(messages, prompt) ==
  /\ Len(Segments(prompt)) = Len(messages)
  /\ \A i \in DOMAIN messages :
       Segments(prompt)[i] = Label(messages[i].role) \o messages[i].content

MainStep(next) ==
  /\ app.exit = "none"
  /\ app' = next
  /\ last' = "main"
  /\ obs' = 0
  /\ UNCHANGED <<limiterVars, now, serviceVars, svc, deskVars, resetDate, ledgerVars,
                 asked, applied>>

\* the process after the events were added to what happened
Did(events) == [app EXCEPT !.trace = @ \o events]

\* the process after process.exit(code), called by handler h
Exit(a, code, h) ==
  [a EXCEPT !.pc = "exited", !.exit = code,
            !.trace = @ \o <<<<"exit", code, h>>>>]

\* main() is called: the log messages, the logs directory (mkdirSync may
\* throw, which the catch block turns into exit(1)), then connect()
Main(mkdirFails) ==
  /\ app.pc = "init"
  /\ MainStep(IF mkdirFails
                THEN Exit(Did(<<<<"errorLogged", "1", 0>>>>), "1", 0)
                ELSE [Did(<<<<"connect", "call", 0>>>>) EXCEPT
                        !.pc = "connecting", !.client = "loggingIn"])

\* client.login() resolves: connect() returns and main() starts the
\* interval timer that polls isConnected()
LoginResolves ==
  /\ app.pc = "connecting"
  /\ MainStep([Did(<<<<"connect", "done", 0>>>>) EXCEPT
                 !.pc = "polling", !.client = "loggedIn"])

\* faulty variant of LoginRejects: connect() logs the error and returns
LoginRejectsSwallowed ==
  /\ app.pc = "connecting"
  /\ MainStep([Did(<<<<"connect", "failed", 0>>,
                     <<"errorLogged", "1", 0>>>>) EXCEPT
                 !.pc = "polling", !.client = "failed"])

\* client.login() rejects: connect() logs the error and rethrows it, and
\* the catch block of main() logs it and calls process.exit(1)
LoginRejects ==
  /\ app.pc = "connecting"
  /\ MainStep(Exit([Did(<<<<"connect", "failed", 0>>,
                          <<"errorLogged", "1", 0>>>>) EXCEPT
                      !.client = "failed"], "1", 0))

\* the client emits 'ready': the handler of setupEventHandlers sets isReady
Ready ==
  /\ app.client \in {"loggingIn", "loggedIn"}
  /\ ~app.isReady
  /\ MainStep([app EXCEPT !.isReady = TRUE])

\* the interval timer finds isConnected() true: the promise resolves and
\* main() calls sendNotification() with the startup message
PollSucceeds ==
  /\ app.pc = "polling"
  /\ app.isReady
  /\ MainStep([Did(<<<<"isConnected", "true", 0>>,
                     <<"notify", "call", 0>>>>) EXCEPT !.pc = "notifying"])

\* the startup sendNotification() settles (it catches its own errors), and
\* main() installs the handlers of SIGINT and SIGTERM and returns
StartupNotified(how) ==
  /\ app.pc = "notifying"
  /\ MainStep([Did(<<<<"notify", how, 0>>>>) EXCEPT
                 !.pc = "running", !.handlers = {"SIGINT", "SIGTERM"}])

\* faulty variant of Signal: the SIGINT handler does not await the
\* notification before it calls disconnect()
SignalUnawaited(sig) ==
  /\ app.pc # "init"
  /\ Len(app.running) < MaxSignals
  /\ LET h == Len(app.running) + 1
     IN  MainStep(
           IF sig \notin app.handlers THEN Exit(app, "killed", 0)
           ELSE [Did(IF sig = "SIGINT"
                       THEN <<<<"notify", "call", h>>,
                              <<"disconnect", "call", h>>>>
                       ELSE <<<<"disconnect", "call", h>>>>) EXCEPT
                   !.running = Append(@, [signal |-> sig,
                                          pc |-> "disconnecting"])])

\* the signal sig is delivered.  Without a handler the process is ended by
\* the signal.  The SIGINT handler calls sendNotification(), which returns
\* at once when the service is not ready; the SIGTERM handler and the
\* SIGINT handler after its notification call disconnect()
Signal(sig) ==
  /\ app.pc # "init"
  /\ Len(app.running) < MaxSignals
  /\ LET h == Len(app.running) + 1
     IN  MainStep(
           IF sig \notin app.handlers THEN Exit(app, "killed", 0)
           ELSE IF sig = "SIGINT" /\ app.isReady
             THEN [Did(<<<<"notify", "call", h>>>>) EXCEPT
                     !.running = Append(@, [signal |-> sig,
                                            pc |-> "notifying"])]
           ELSE [Did(IF sig = "SIGINT"
                       THEN <<<<"notify", "skipped", h>>,
                              <<"disconnect", "call", h>>>>
                       ELSE <<<<"disconnect", "call", h>>>>) EXCEPT
                   !.running = Append(@, [signal |-> sig,
                                          pc |-> "disconnecting"])])

\* the sendNotification() of the SIGINT handler h settles, and the handler
\* calls disconnect()
ShutdownNotified(h, how) ==
  /\ h \in DOMAIN app.running
  /\ app.running[h].pc = "notifying"
  /\ MainStep([Did(<<<<"notify", how, h>>, <<"disconnect", "call", h>>>>)
                 EXCEPT !.running[h].pc = "disconnecting"])

\* client.destroy() resolves for handler h: disconnect() clears isReady
\* and returns, and the handler calls process.exit(0)
Disconnected(h) ==
  /\ h \in DOMAIN app.running
  /\ app.running[h].pc = "disconnecting"
  /\ MainStep(Exit([Did(<<<<"disconnect", "done", h>>>>) EXCEPT
                      !.isReady = FALSE, !.client = "destroyed"], "0", h))

\* client.destroy() rejects for handler h: the rejection of the handler is
\* not handled, and the handler goes no further
DisconnectFails(h) ==
  /\ h \in DOMAIN app.running
  /\ app.running[h].pc = "disconnecting"
  /\ MainStep([Did(<<<<"disconnect", "failed", h>>>>) EXCEPT
                 !.running[h].pc = "failed"])

\* how a sendNotification() of a ready service ends: the message was sent,
\* the channel is not a text channel, or fetch / send failed (and was logged)
Outcomes == {"sent", "noChannel", "failed"}

MainNext ==
  \/ \E mkdirFails \in BOOLEAN : Main(mkdirFails)
  \/ LoginResolves
  \/ LoginRejects
  \/ Ready
  \/ PollSucceeds
  \/ \E how \in Outcomes : StartupNotified(how)
  \/ \E sig \in {"SIGINT", "SIGTERM"} : Signal(sig)
  \/ \E h \in 1..MaxSignals, how \in Outcomes : ShutdownNotified(h, how)
  \/ \E h \in 1..MaxSignals : Disconnected(h)
  \/ \E h \in 1..MaxSignals : DisconnectFails(h)

MainSpec ==
  /\ InitRpm1
  /\ [][MainNext]_vars

\* the positions of the trace at which the event happened
At(event) == {i \in DOMAIN app.trace : app.trace[i] = event}

\* some event of the set happened before position k of the trace
Before(events, k) == \E i \in 1..(k - 1) : app.trace[i] \in events

\* C29: when connect() fails during main(), the error is logged and the
\* process exits with code 1 -- in the step in which the failure arrives --
\* and no notification was or will be sent and no handler of a signal is
\* or will be installed
C29_StartupFailureFatal ==
  At(<<"connect", "failed", 0>>) # {} =>
    /\ app.exit = "1" /\ app.pc = "exited"
    /\ At(<<"errorLogged", "1", 0>>) # {}
    /\ At(<<"exit", "1", 0>>) = {Len(app.trace)}
    /\ \A i \in DOMAIN app.trace : app.trace[i][1] # "notify"
    /\ app.handlers = {} /\ app.running = <<>>

\* C29 witness: the login was rejected while the service was not ready
C29_Witness ==
  /\ app.client = "failed" /\ app.exit = "1"
  /\ app.trace = <<<<"connect", "call", 0>>, <<"connect", "failed", 0>>,
                   <<"errorLogged", "1", 0>>, <<"exit", "1", 0>>>>

\* the ways a sendNotification() that was called can have settled
Settled(h) == {<<"notify", how, h>> : how \in Outcomes}

\* C30: the order of startup and shutdown.  The startup notification is
\* called only after connect() has returned and, after that, isConnected()
\* has been seen true; a SIGINT handler calls disconnect() only after its
\* shutdown notification was called and has settled; a handler (of SIGINT
\* or of SIGTERM) calls process.exit(0) only after its disconnect() has
\* returned, and the process exits with code 0 in no other way
C30_StartupShutdownOrder ==
  /\ \A k \in At(<<"notify", "call", 0>>) :
       \E j \in 1..(k - 1) :
         /\ app.trace[j] = <<"isConnected", "true", 0>>
         /\ Before({<<"connect", "done", 0>>}, j)
  /\ \A h \in DOMAIN app.running :
       /\ \A k \in At(<<"disconnect", "call", h>>) :
            app.running[h].signal = "SIGINT" =>
              \E j \in 1..(k - 1) :
                /\ app.trace[j] \in Settled(h)
                /\ Before({<<"notify", "call", h>>}, j)
       /\ \A k \in At(<<"exit", "0", h>>) :
            \E j \in 1..(k - 1) :
              /\ app.trace[j] = <<"disconnect", "done", h>>
              /\ Before({<<"disconnect", "call", h>>}, j)
  /\ app.exit = "0" =>
       \E h \in DOMAIN app.running :
         At(<<"exit", "0", h>>) = {Len(app.trace)}

\* C30 witness: after a SIGTERM whose disconnect() is still pending, a
\* SIGINT handler sent its notification, disconnected and exited with 0
C30_Witness ==
  /\ app.exit = "0"
  /\ app.trace =
       <<<<"connect", "call", 0>>, <<"connect", "done", 0>>,
         <<"isConnected", "true", 0>>, <<"notify", "call", 0>>,
         <<"notify", "sent", 0>>, <<"disconnect", "call", 1>>,
         <<"notify", "call", 2>>, <<"notify", "sent", 2>>,
         <<"disconnect", "call", 2>>, <<"disconnect", "done", 2>>,
         <<"exit", "0", 2>>>>

\* ------------------------------------------------- claims across components
\* C31: a complete() or streamComplete() call debits the limiter exactly
\* once, before the first invocation of the adapter: a call that waits in
\* acquire() has debited nothing and invoked nothing, a call past acquire()
\* has debited 1, whatever the number of its invocations (at most
\* maxRetries + 1) and whether it failed.  Only the step in which acquire()
\* returns lowers the balance, by one token; the steps of the attempts, of
\* the backoff and of the failure leave the limiter as it is
C31_OneDebitPerRequest ==
  /\ [](\A c \in Callers :
          LET r == req[c]
          IN  r.op \in ServiceOps =>
                /\ debited[c] = (IF pc[c] = "done" THEN 1 ELSE 0)
                /\ r.invocations > 0 => debited[c] = 1
                /\ r.invocations <= config.maxRetries + 1
                /\ r.state \in {"Retrying", "Failed", "Succeeded"} =>
                     debited[c] = 1)
  /\ [][/\ tokens' < tokens =>
             /\ last' \in {"acquire", "resume"}
             /\ returned' = returned + 1
             /\ tokens' = Refilled - Scale
        /\ last' \in {"invoke", "throw", "return", "chunk", "tick"} =>
             UNCHANGED <<tokens, lastRefill, debited, returned, calls>>]_vars

\* C31 witness: a call that waited in acquire() failed after maxRetries + 1
\* = 3 invocations of the adapter, with one debit
C31_Witness ==
  \E c \in Callers :
    /\ req[c].op \in ServiceOps /\ req[c].state = "Failed"
    /\ config.maxRetries = 2 /\ req[c].invocations = 3
    /\ debited[c] = 1 /\ returned = 2 /\ calls = 2

\* concurrent complete() and ask(stream) calls of every caller on one
\* AIService, with resetTokenUsage() calls in between
LedgerNext ==
  \/ \E c \in Callers : Complete(c) /\ UNCHANGED appVars
  \/ \E c \in Callers : AskStream(c) /\ UNCHANGED appVars
  \/ \E c \in Callers : AcquireResume(c) /\ UNCHANGED <<serviceVars, appVars>>
  \/ \E c \in Callers : TimerDue(c) /\ UNCHANGED <<serviceVars, appVars>>
  \/ \E c \in Callers : Admitted(c) /\ UNCHANGED appVars
  \/ \E c \in Callers, md \in UsageMetadata :
       ProviderReturns(c, <<"a">>, md) /\ UNCHANGED appVars
  \/ \E c \in Callers : \E e \in ProviderErrors(provider) :
       ProviderThrows(c, e) /\ UNCHANGED appVars
  \/ \E c \in Callers :
       req[c].chunks = <<>> /\ StreamChunk(c, <<"a">>) /\ UNCHANGED appVars
  \/ \E c \in Callers, md \in UsageMetadata :
       StreamEnd(c, md) /\ UNCHANGED appVars
  \/ \E c \in Callers : BackoffDue(c) /\ UNCHANGED appVars
  \/ \E c \in Callers : BackoffElapsed(c) /\ UNCHANGED appVars
  \/ tokenUsage # ZeroUsage /\ ResetTokenUsage

\* a limiter of one request per minute; the simulated adapter, whose
\* rate-limit failures are retried, with at most one retry
LedgerInit ==
  /\ InitWith({1})
  /\ InitService({"simulated"},
                 {cfg \in ServiceConfigs : cfg.maxRetries <= 1})

LedgerSpec == LedgerInit /\ [][LedgerNext]_vars

\* the usage that came with the response of a call that returned
UsageOfCall(r) == IF r.op = "stream" THEN LastChunk(r).usage ELSE r.result.usage

\* the ledger after a call with the usage was counted
Counted(usage) ==
  [promptTokens |-> tokenUsage.promptTokens + usage.promptTokens,
   completionTokens |-> tokenUsage.completionTokens + usage.completionTokens,
   totalTokens |-> tokenUsage.totalTokens + usage.totalTokens,
   requestCount |-> tokenUsage.requestCount + 1]

\* C32 (as claimed): the ledger counts the calls that returned.  Every step
\* in which a complete() or streamComplete() call returns adds 1 to
\* requestCount and the usage of that call to the totals, and every other
\* step but resetTokenUsage() -- the failure of a call among them -- leaves
\* the ledger as it is; so that requestCount is the number of calls that
\* returned since construction or the last reset
C32_LedgerCountsSuccesses ==
  [][LET won == {c \in Callers : /\ req[c].state # "Succeeded"
                                 /\ req'[c].state = "Succeeded"}
     IN  last' # "reset" =>
           IF won = {} THEN tokenUsage' = tokenUsage
           ELSE \E c \in won : tokenUsage' = Counted(UsageOfCall(req'[c]))]_vars

\* C32, for the calls whose response carried usage and for complete(): these
\* are counted in the step in which they return; a streamComplete() call
\* whose terminal chunk has no usage changes nothing; no other step but
\* resetTokenUsage() changes the ledger
C32_LedgerCountsRecorded ==
  [][LET won == {c \in Callers : /\ req[c].state # "Succeeded"
                                 /\ req'[c].state = "Succeeded"}
     IN  last' # "reset" =>
           IF \E c \in won : req'[c].op = "complete"
                               \/ UsageOfCall(req'[c]).present
             THEN \E c \in won : tokenUsage' = Counted(UsageOfCall(req'[c]))
             ELSE tokenUsage' = tokenUsage]_vars

\* ------------------------------------------------ over-admission of acquire
\* requestsPerMinute values of the limiters whose waits are recorded: no
\* refill, one token per minute, and a rate that does not divide a minute
RpmWaits == {0, 1, 7}

\* the callers suspended in the await of acquire() after the step
Suspended == {c \in Callers : pc'[c] = "waiting"}

\* acquire() is called by c, and the record of the waits notes how many
\* callers are now suspended and whether another caller was suspended
AcquireNoted(c) ==
  /\ Acquire(c)
  /\ hist' = [hist EXCEPT
                !.peak = IF Cardinality(Suspended) > @
                           THEN Cardinality(Suspended) ELSE @,
                !.serial = @ /\ \A d \in Callers \ {c} : pc[d] # "waiting"]
  /\ UNCHANGED <<serviceVars, svc, resetDate, ledgerVars, restVars, gem,
                 desk, research>>

\* the timer of c fires, and the record notes whether it is late
AcquireResumeNoted(c) ==
  /\ AcquireResume(c)
  /\ hist' = [hist EXCEPT !.punctual = @ /\ now = deadline[c]]
  /\ UNCHANGED <<serviceVars, svc, resetDate, ledgerVars, restVars, gem,
                 desk, research>>

WaitsNext ==
  \/ \E c \in Callers : AcquireNoted(c)
  \/ \E c \in Callers : AcquireResumeNoted(c)
  \/ GetAvailableTokens /\ UNCHANGED <<serviceVars, appVars>>
  \/ \E d \in TickSteps : Tick(d) /\ UNCHANGED <<serviceVars, appVars>>
  \/ \E c \in Callers : TimerDue(c) /\ UNCHANGED <<serviceVars, appVars>>

WaitsInit == InitWith(RpmWaits) /\ LimiterOnly
WaitsSpec == WaitsInit /\ [][WaitsNext]_vars

\* C33 (as claimed): the balance is at least -N, N the largest number of
\* callers that were suspended in acquire() at the same time; and when no
\* call was made while another was suspended and every timer fired at its
\* deadline, the balance is at least 0
C33_BoundedOverAdmission ==
  /\ tokens >= -(hist.peak * Scale)
  /\ (hist.serial /\ hist.punctual) => tokens >= 0

\* C33, for the limiters with a positive rate: the balance is at least -N
C33_BoundedWithRefill ==
  maxTokens > 0 => tokens >= -(hist.peak * Scale)

\* C33, for the rates of which a token takes a whole number of
\* milliseconds: serial calls with punctual timers never overdraw
C33_SerialWholeDelays ==
  (maxTokens > 0 /\ Scale % maxTokens = 0 /\ hist.serial /\ hist.punctual)
    => tokens >= 0

\* ------------------------------------------- the calls of the Gemini adapter
\* gem.pc is the await at which the call stands: "generating" (the call of
\* the SDK), "streaming" (the iteration of result.stream), "finishing"
\* (result.response), then "returned" or "threw".  What is thrown inside the
\* try block is kept with who threw it, which stands for the identity of
\* the object: the SDK, or the onChunk callback of the caller.

\* the state outside the adapter and the record of the waits
coreVars ==
  <<limiterVars, now, serviceVars, svc, resetDate, ledgerVars, restVars>>

\* what the onChunk callback of a caller may throw: an error, an error with
\* an empty message, and an AIServiceError of the caller's own
CallbackErrors ==
  {PlainError,
   [class |-> "Error", name |-> "Error", message |-> <<>>],
   AIServiceError(<<"quota">>, "server_error", "gemini", "500",
                  Undefined, Undefined)}

\* the properties handleError reads of a thrown object
Properties(e) ==
  [message |-> IF "message" \in DOMAIN e THEN e.message ELSE <<>>,
   code |-> Get(e, "code"), statusCode |-> Get(e, "statusCode")]

\* faulty variant of Catch: an AIServiceError is rethrown as it is
CatchKeepsServiceErrors(e, by) ==
  gem' = [gem EXCEPT
            !.pc = "threw",
            !.cause = [error |-> e, by |-> by],
            !.escaped = IF Get(e, "class") = "AIServiceError"
                          THEN [error |-> e, by |-> by]
                          ELSE [error |-> handleError(Properties(e)),
                                by |-> "adapter"]]

\* the catch block: throw this.handleError(error)
Catch(e, by) ==
  gem' = [gem EXCEPT
            !.pc = "threw",
            !.cause = [error |-> e, by |-> by],
            !.escaped = [error |-> handleError(Properties(e)),
                         by |-> "adapter"]]

\* a step of a call of the adapter
AdapterStep ==
  /\ last' = "adapter"
  /\ obs' = 0
  /\ UNCHANGED <<coreVars, hist, desk, research>>

\* provider.complete(request) or provider.streamComplete(request, onChunk)
\* is called: the prompt is built and the SDK is called
GeminiCall(op) ==
  /\ gem.pc \in {"idle", "returned", "threw"}
  /\ gem' = [NoAdapterCall EXCEPT !.op = op, !.pc = "generating"]
  /\ AdapterStep

\* the SDK fails with e: generateContent / generateContentStream rejects,
\* response.text() or chunk.text() throws, the stream or result.response
\* fails
SdkThrows(e) ==
  /\ gem.pc \in {"generating", "streaming", "finishing"}
  /\ Catch(e, "sdk")
  /\ AdapterStep

\* generateContent resolves and complete() returns the response
GenerateReturns ==
  /\ gem.op = "complete" /\ gem.pc = "generating"
  /\ gem' = [gem EXCEPT !.pc = "returned"]
  /\ AdapterStep

\* generateContentStream resolves: the iteration of the stream begins
StreamOpens ==
  /\ gem.op = "streamComplete" /\ gem.pc = "generating"
  /\ gem' = [gem EXCEPT !.pc = "streaming"]
  /\ AdapterStep

\* the stream yields a fragment and onChunk is called with it: the
\* callback returns, or throws what it throws
OnChunk(thrown) ==
  /\ gem.pc = "streaming" /\ gem.chunks < MaxChunks
  /\ IF thrown = NotThrown
       THEN gem' = [gem EXCEPT !.chunks = @ + 1]
       ELSE Catch(thrown, "onChunk")
  /\ AdapterStep

\* the stream is exhausted: result.response is awaited
StreamExhausted ==
  /\ gem.pc = "streaming"
  /\ gem' = [gem EXCEPT !.pc = "finishing"]
  /\ AdapterStep

\* result.response resolves and onChunk is called with the terminal chunk:
\* the callback returns and streamComplete() returns, or it throws
OnFinalChunk(thrown) ==
  /\ gem.pc = "finishing"
  /\ IF thrown = NotThrown
       THEN gem' = [gem EXCEPT !.pc = "returned"]
       ELSE Catch(thrown, "onChunk")
  /\ AdapterStep

GeminiNext ==
  \/ \E op \in {"complete", "streamComplete"} : GeminiCall(op)
  \/ \E e \in BackendErrors : SdkThrows(e)
  \/ GenerateReturns
  \/ StreamOpens
  \/ \E thrown \in CallbackErrors \cup {NotThrown} : OnChunk(thrown)
  \/ StreamExhausted
  \/ \E thrown \in CallbackErrors \cup {NotThrown} : OnFinalChunk(thrown)

GeminiSpec == InitRpm1 /\ [][GeminiNext]_vars

DeskStep ==
  /\ last' = "desk"
  /\ obs' = 0
  /\ UNCHANGED <<coreVars, hist, gem, research>>

\* the request q after resolve(value) or reject(error) was called: a
\* promise that is settled stays as it is
Settle(q, state, value) ==
  IF q.promise = "pending"
    THEN [q EXCEPT !.promise = state, !.value = value]
    ELSE q

\* resolve({approved, feedback}); feedback 0: none
Resolve(q, approved, feedback) ==
  Settle(q, "fulfilled",
         [kind |-> "result", approved |-> approved, feedback |-> feedback])

\* reject(new Error(message))
Reject(q, message) ==
  Settle(q, "rejected", [kind |-> "error", error |-> Error(message)])

\* the client emits 'ready' (once): isReady = true
DeskReady ==
  /\ ~desk.fired
  /\ desk' = [desk EXCEPT !.isReady = TRUE, !.fired = TRUE,
                          !.done = [fn |-> "ready"]]
  /\ DeskStep

\* disconnect(): client.destroy() resolves and isReady is cleared, or it
\* rejects and disconnect() raises
Disconnect(destroyed) ==
  /\ desk' = [desk EXCEPT
                !.isReady = IF destroyed THEN FALSE ELSE @,
                !.fired = TRUE,
                !.done = [fn |-> "disconnect", wasReady |-> desk.isReady,
                          raised |-> ~destroyed, sent |-> FALSE]]
  /\ DeskStep

\* sendNotification(message): nothing when not ready; else the message is
\* sent, or the channel is not a text channel, or the failure is logged
SendNotification(how) ==
  /\ desk' = [desk EXCEPT
                !.done = [fn |-> "sendNotification",
                          wasReady |-> desk.isReady, raised |-> FALSE,
                          sent |-> desk.isReady /\ how = "sent"]]
  /\ DeskStep

\* faulty variant of RequestApproval: isReady is not consulted
RequestApprovalUnchecked(r) ==
  /\ desk.requests[r].pc = "none"
  /\ desk' = [desk EXCEPT
                !.requests[r] = [@ EXCEPT !.pc = "fetching",
                                          !.promise = "pending"],
                !.done = [fn |-> "requestApproval", id |-> r,
                          wasReady |-> desk.isReady,
                          raised |-> FALSE, sent |-> FALSE]]
  /\ DeskStep

\* requestApproval(r) is called: it throws when the service is not ready,
\* else the promise is made and the channel is fetched
RequestApproval(r) ==
  /\ desk.requests[r].pc = "none"
  /\ desk' = [desk EXCEPT
                !.requests[r] =
                  IF desk.isReady
                    THEN [@ EXCEPT !.pc = "fetching", !.promise = "pending"]
                    ELSE [Reject([@ EXCEPT !.promise = "pending"],
                                 <<"Discord bot not ready">>)
                            EXCEPT !.pc = "threw"],
                !.done = [fn |-> "requestApproval", id |-> r,
                          wasReady |-> desk.isReady,
                          raised |-> ~desk.isReady, sent |-> FALSE]]
  /\ DeskStep

\* channels.fetch settles: a text channel, no such channel, or a failure
\* that the catch block logs and rejects with
ChannelFetched(r, how) ==
  /\ desk.requests[r].pc = "fetching"
  /\ desk' = [desk EXCEPT
                !.requests[r] =
                  IF how = "sent" THEN [@ EXCEPT !.pc = "sending"]
                  ELSE [Reject(@, IF how = "noChannel"
                                    THEN <<"Notification channel not found">>
                                    ELSE <<"fetch failed">>)
                          EXCEPT !.pc = "settled"]]
  /\ DeskStep

\* channel.send settles: the message with the buttons is posted, the
\* request is stored, the timeout and the button collector are started;
\* or the catch block rejects
ApprovalPosted(r, ok) ==
  /\ desk.requests[r].pc = "sending"
  /\ desk' = IF ok
               THEN [desk EXCEPT
                       !.pendingApprovals = @ \cup {r},
                       !.requests[r] = [@ EXCEPT !.pc = "waiting",
                                                 !.posted = TRUE,
                                                 !.timeout = TRUE,
                                                 !.collector = TRUE]]
               ELSE [desk EXCEPT
                       !.requests[r] = [Reject(@, <<"send failed">>)
                                          EXCEPT !.pc = "settled"]]
  /\ DeskStep

\* the timeout of 24 hours fires
TimedOut(r) ==
  /\ desk.requests[r].timeout
  /\ desk' = [desk EXCEPT
                !.pendingApprovals = @ \ {r},
                !.requests[r] =
                  [Reject(@, <<"Approval request timed out after 24 hours">>)
                     EXCEPT !.timeout = FALSE, !.pc = "settled"]]
  /\ DeskStep

\* the 24 hours of the button collector end
CollectorEnds(r) ==
  /\ desk.requests[r].collector /\ ~desk.requests[r].timeout
  /\ desk' = [desk EXCEPT !.requests[r].collector = FALSE]
  /\ DeskStep

\* faulty variant of Clicked: the collector is not stopped
ClickedKeepsCollecting(r, action) ==
  /\ desk.requests[r].collector
  /\ desk.requests[r].collected < 2
  /\ desk' = [desk EXCEPT
                !.requests[r] = [@ EXCEPT !.pc = "updating",
                                          !.timeout = FALSE,
                                          !.collected = @ + 1,
                                          !.action = action]]
  /\ DeskStep

\* the admin clicks a button of the message of r and the collector
\* collects it: clearTimeout, collector.stop(), then interaction.update
\* (approve, reject) or interaction.reply (edit)
Clicked(r, action) ==
  /\ desk.requests[r].collector
  /\ desk' = [desk EXCEPT
                !.requests[r] = [@ EXCEPT !.pc = "updating",
                                          !.timeout = FALSE,
                                          !.collector = FALSE,
                                          !.collected = @ + 1,
                                          !.action = action]]
  /\ DeskStep

\* interaction.update or interaction.reply settles.  After approve or
\* reject the request is deleted and the promise resolved; after edit the
\* message collector of the channel is started.  When the call fails the
\* handler raises
Updated(r, ok) ==
  /\ desk.requests[r].pc = "updating"
  /\ LET q == desk.requests[r]
     IN  desk' =
           IF ~ok THEN [desk EXCEPT !.requests[r].pc = "failed"]
           ELSE IF q.action = "edit"
             THEN [desk EXCEPT !.requests[r] =
                     [@ EXCEPT !.pc = "feedback", !.msgCollector = TRUE]]
           ELSE [desk EXCEPT
                   !.pendingApprovals = @ \ {r},
                   !.requests[r] =
                     [Resolve(q, q.action = "approve", 0)
                        EXCEPT !.pc = "settled"]]
  /\ DeskStep

\* the admin posts a message in the channel: every message collector of
\* the channel collects it (their filter is the author) and ends (max: 1)
MessagePosted ==
  /\ \E r \in Approvals : desk.requests[r].msgCollector
  /\ desk' = [desk EXCEPT
                !.messages = @ + 1,
                !.requests = [r \in Approvals |->
                  IF desk.requests[r].msgCollector
                    THEN [desk.requests[r] EXCEPT
                            !.pc = "acking", !.msgCollector = FALSE,
                            !.feedback = desk.messages + 1]
                    ELSE desk.requests[r]]]
  /\ DeskStep

\* interaction.editReply and message.edit settle: the request is deleted
\* and the promise resolved with the feedback; or the handler raises
Acknowledged(r, ok) ==
  /\ desk.requests[r].pc = "acking"
  /\ LET q == desk.requests[r]
     IN  desk' =
           IF ok
             THEN [desk EXCEPT
                     !.pendingApprovals = @ \ {r},
                     !.requests[r] = [Resolve(q, FALSE, q.feedback)
                                        EXCEPT !.pc = "settled"]]
             ELSE [desk EXCEPT !.requests[r].pc = "failed"]
  /\ DeskStep

\* the 5 minutes of the message collector end without a message
FeedbackWindowEnds(r) ==
  /\ desk.requests[r].msgCollector
  /\ desk' = [desk EXCEPT !.requests[r] =
                [@ EXCEPT !.pc = "abandoned", !.msgCollector = FALSE]]
  /\ DeskStep

\* what the network does by itself: calls settle, timers fire
DeskSettles(r) ==
  \/ \E how \in Outcomes : ChannelFetched(r, how)
  \/ \E ok \in BOOLEAN : ApprovalPosted(r, ok)
  \/ TimedOut(r)
  \/ CollectorEnds(r)
  \/ \E ok \in BOOLEAN : Updated(r, ok)
  \/ \E ok \in BOOLEAN : Acknowledged(r, ok)
  \/ FeedbackWindowEnds(r)

DeskNext ==
  \/ DeskReady
  \/ \E destroyed \in BOOLEAN : Disconnect(destroyed)
  \/ \E how \in Outcomes : SendNotification(how)
  \/ \E r \in Approvals : RequestApproval(r)
  \/ \E r \in Approvals : DeskSettles(r)
  \/ \E r \in Approvals, action \in {"approve", "reject", "edit"} :
       Clicked(r, action)
  \/ MessagePosted

DeskSpec == InitRpm1 /\ [][DeskNext]_vars

\* every call settles and every timer fires; the admin is free to act
DeskLiveSpec ==
  /\ InitRpm1 /\ [][DeskNext]_vars
  /\ \A r \in Approvals : WF_vars(DeskSettles(r))

\* C35 (as claimed): every requestApproval() call made while connected is
\* eventually resolved or rejected, whatever the admin does
C35_ApprovalsSettle ==
  \A r \in Approvals :
    (desk.requests[r].promise = "pending")
      ~> (desk.requests[r].promise \in {"fulfilled", "rejected"})

\* C35, for what the code does: a request that is pending is eventually
\* settled, or abandoned after an edit request without feedback, or left
\* by a handler that raised
C35_SettlesOrAbandoned ==
  \A r \in Approvals :
    (desk.requests[r].promise = "pending")
      ~> \/ desk.requests[r].promise \in {"fulfilled", "rejected"}
         \/ desk.requests[r].pc \in {"abandoned", "failed"}

\* C36: the id of a request is in pendingApprovals only while the promise
\* of the request is unsettled: when the promise is settled -- approved,
\* rejected, feedback received, timed out, or failed before the message was
\* posted -- the id is not there.  A settled promise keeps its state and
\* its value, and the button collector of a request collects one
\* interaction at most
C36_PendingBookkeeping ==
  /\ [](\A r \in Approvals :
          LET q == desk.requests[r]
          IN  /\ r \in desk.pendingApprovals =>
                   q.promise = "pending" /\ q.posted
              /\ q.promise \in {"fulfilled", "rejected"} =>
                   r \notin desk.pendingApprovals
              /\ q.collected <= 1
              /\ q.collected = 1 => ~q.collector)
  /\ [][\A r \in Approvals :
          LET q == desk.requests[r]
          IN  /\ q.promise \in {"fulfilled", "rejected"} =>
                   /\ desk'.requests[r].promise = q.promise
                   /\ desk'.requests[r].value = q.value
              /\ desk'.requests[r].collected > q.collected =>
                   q.collected = 0 /\ q.collector]_vars

\* C36 witness: one request was resolved with the feedback of the admin
\* and is no longer stored, while the other is stored and unsettled
C36_Witness ==
  /\ desk.requests[1].promise = "fulfilled"
  /\ desk.requests[1].value.feedback = 1
  /\ desk.requests[1].collected = 1
  /\ desk.pendingApprovals = {2}
  /\ desk.requests[2].promise = "pending"

\* C37 (as claimed): when two requests both await the feedback of an edit
\* request, one message of the admin is the feedback of one of them at
\* most: no two requests have the same message as their feedback, and the
\* step in which a request receives its message leaves every other
\* request that awaits feedback waiting
C37_FeedbackAttribution ==
  /\ [](\A r1, r2 \in Approvals :
          (r1 # r2 /\ desk.requests[r1].feedback # 0) =>
            desk.requests[r1].feedback # desk.requests[r2].feedback)
  /\ [][\A r1, r2 \in Approvals :
          (/\ r1 # r2
           /\ desk.requests[r1].pc = "feedback"
           /\ desk.requests[r2].pc = "feedback"
           /\ desk'.requests[r1].pc = "acking") =>
            desk'.requests[r2] = desk.requests[r2]]_vars

\* C37, for what the code does: a message of the admin is collected by
\* every request that awaits feedback at that time, and by no other
C37_EveryAwaitingCollects ==
  [][desk'.messages # desk.messages =>
       \A r \in Approvals :
         IF desk.requests[r].msgCollector
           THEN /\ desk'.requests[r].pc = "acking"
                /\ desk'.requests[r].feedback = desk'.messages
           ELSE desk'.requests[r] = desk.requests[r]]_vars

ResearcherStep ==
  /\ last' = "researcher"
  /\ obs' = 0
  /\ UNCHANGED <<coreVars, hist, gem, desk>>

\* the awaited steps of researchProduct() before the approval request
ResearchSteps ==
  <<"findProduct", "gatherSpecifications", "analyzeProsAndCons",
    "analyzeCompetitors", "generateSummary">>

\* researchProduct() returns value, having written the lines to the log
Returns(value, lines) ==
  [research EXCEPT !.pc = "done",
                   !.logged = @ \cup lines,
                   !.result = [kind |-> "returned", value |-> value]]

\* the catch of researchProduct(): the error is logged and thrown again
Rethrows(error) ==
  [research EXCEPT !.pc = "done",
                   !.logged = @ \cup {"Failed to research product:"},
                   !.result = [kind |-> "raised", error |-> error]]

\* researchProduct(productQuery) is called and awaits findProduct()
ResearchProduct ==
  /\ research.pc = "idle"
  /\ research' = [research EXCEPT !.pc = "researching", !.step = 1]
  /\ ResearcherStep

\* findProduct() settles: with a product, with null, or by throwing
FindProduct(how) ==
  /\ research.pc = "researching" /\ research.step = 1
  /\ research' =
       CASE how = "found" -> [research EXCEPT !.step = 2]
         [] how = "null" -> Returns("null", {"Product not found"})
         [] how = "throws" -> Rethrows(Error(<<ResearchSteps[1]>>))
  /\ ResearcherStep

\* randomUUID(): an id no request has used; the ids are taken in order
FreshIds ==
  {r \in Approvals :
     /\ desk.requests[r].pc = "none" /\ r # research.id
     /\ \A q \in 1..(r - 1) : desk.requests[q].pc # "none" \/ q = research.id}

\* one of the later steps settles; after the last one the findings are
\* compiled and the private requestApproval() makes the ApprovalRequest
\* with a fresh id
ResearchStep(ok, r) ==
  /\ research.pc = "researching" /\ research.step > 1
  /\ r \in FreshIds
  /\ research' =
       IF ~ok THEN Rethrows(Error(<<ResearchSteps[research.step]>>))
       ELSE IF research.step < Len(ResearchSteps)
         THEN [research EXCEPT !.step = @ + 1]
         ELSE [research EXCEPT !.pc = "asking", !.id = r]
  /\ ResearcherStep

\* the private requestApproval() calls discordService.requestApproval()
AsksApproval ==
  /\ research.pc = "asking"
  /\ RequestApproval(research.id)

\* the approval request of the researcher, once it has been made
Asked ==
  IF research.id \in Approvals /\ desk.requests[research.id].pc # "none"
    THEN desk.requests[research.id]
    ELSE NoApproval

\* faulty variant of ApprovalFails: the failed exchange is thrown on
ApprovalFailsRaised ==
  /\ research.pc = "asking" /\ Asked.promise = "rejected"
  /\ research' = Rethrows(Asked.value.error)
  /\ ResearcherStep

\* the await of discordService.requestApproval() resumes with the result:
\* true for an approval; the feedback, if any, is logged
ApprovalSettled ==
  /\ research.pc = "asking" /\ Asked.promise = "fulfilled"
  /\ research' =
       IF Asked.value.approved
         THEN Returns("findings", {"Research approved by admin",
                                   "Research approved!"})
         ELSE Returns("null",
                      (IF Asked.value.feedback # 0
                         THEN {"Feedback received"} ELSE {})
                      \cup {"Research rejected"})
  /\ ResearcherStep

\* the await resumes with the rejection of the exchange: it is caught,
\* logged and answered with false
ApprovalFails ==
  /\ research.pc = "asking" /\ Asked.promise = "rejected"
  /\ research' = Returns("null", {"Failed to get approval:",
                                  "Research rejected"})
  /\ ResearcherStep

\* one researchProduct() call and the service it asks; other callers of
\* the service make their requests once the researcher has made its own
ResearchNext ==
  \/ ResearchProduct
  \/ \E how \in {"found", "null", "throws"} : FindProduct(how)
  \/ \E ok \in BOOLEAN, r \in Approvals : ResearchStep(ok, r)
  \/ AsksApproval
  \/ ApprovalSettled
  \/ ApprovalFails
  \/ DeskReady
  \/ \E destroyed \in BOOLEAN : Disconnect(destroyed)
  \/ \E r \in FreshIds : Asked # NoApproval /\ RequestApproval(r)
  \/ \E r \in Approvals : DeskSettles(r)
  \/ \E r \in Approvals, action \in {"approve", "reject", "edit"} :
       Clicked(r, action)
  \/ MessagePosted

ResearchSpec == InitRpm1 /\ [][ResearchNext]_vars

\* C39: when researchProduct() has returned, it returned the findings if
\* and only if the admin approved its request; it returned null after a
\* rejection, after an edit request, and after a failed exchange (service
\* not ready, time-out, failed post), which is logged and not raised; and
\* when it has raised, the failure was one of the research steps and no
\* approval request was made
C39_FindingsIffApproved ==
  /\ research.result.kind = "returned" =>
       /\ research.result.value \in {"findings", "null"}
       /\ research.result.value = "findings" <=>
            (Asked.promise = "fulfilled" /\ Asked.action = "approve")
       /\ Asked.action \in {"reject", "edit"} =>
            research.result.value = "null"
       /\ Asked.promise = "rejected" =>
            /\ research.result.value = "null"
            /\ "Failed to get approval:" \in research.logged
       /\ research.id # 0 => Asked.promise \in {"fulfilled", "rejected"}
  /\ research.result.kind = "raised" =>
       /\ research.id = 0 /\ Asked = NoApproval
       /\ research.step \in 1..Len(ResearchSteps)
       /\ research.result.error = Error(<<ResearchSteps[research.step]>>)
       /\ "Failed to research product:" \in research.logged
  /\ research.pc = "done" <=> research.result.kind \in {"returned", "raised"}

\* C39 witness: the request of the researcher was posted and timed out,
\* and researchProduct() returned null
C39_Witness ==
  /\ research.result = [kind |-> "returned", value |-> "null"]
  /\ Asked.posted
  /\ Asked.value =
       [kind |-> "error",
        error |-> Error(<<"Approval request timed out after 24 hours">>)]

=============================================================================
